---- MODULE Spec2Model ----
(***************************************************************************)
(* mcp-oauth-password: OAuth 2.1 authorization-code flow with PKCE.        *)
(*                                                                         *)
(* State: the oauth_clients and authorization_codes tables, the DELETEs    *)
(* that were started but have not reached the table yet, the sessions,     *)
(* the clock, the token requests in flight, and the last HTTP exchange.    *)
(*                                                                         *)
(* Values of request parameters are tagged records: undefined, a string    *)
(* (payload: a sequence of chunks), an array (payload: a sequence of       *)
(* strings) or some other non-string object.  PKCE strings are             *)
(* run-length encoded: a sequence of <<character, count>> runs.            *)
(***************************************************************************)
EXTENDS Integers, Sequences, FiniteSets, TLC

VARIABLES
    config,               \* OAuthConfig handed to setupOAuth
    now,                  \* wall clock, milliseconds
    oauth_clients,        \* table oauth_clients: sequence of rows, insertion order
    authorization_codes,  \* table authorization_codes: set of rows
    codesGenerated,       \* number of codes generateAuthCode has produced
    pendingDeletes,       \* codes whose DELETE was started and has not landed
    session,              \* session store: session id -> SessionData
    tok,                  \* token requests: slot -> handleToken activation
    codeEvents,           \* history: <<code, outcome>> pairs already answered
    accessTokens,         \* access tokens that token responses have carried
    hits,                 \* requests received per rate-limited route in this window
    userAgent,            \* user agents: session id -> page shown and how it got there
    http                  \* the HTTP exchange completed by the last step

vars == <<config, now, oauth_clients, authorization_codes, codesGenerated,
          pendingDeletes, session, tok, codeEvents, accessTokens, hits, userAgent, http>>

----------------------------------------------------------------------------
(* Bounds of the model *)

MaxClients == 1     \* dynamic registrations
MaxCodes == 1       \* authorization codes issued
MaxTicks == 1       \* clock steps
MaxReqs == 2        \* token requests handled
MaxRegistrations == 2   \* registrations where the registry is followed over time
MaxHits == 6        \* requests counted per route where the hits are followed

----------------------------------------------------------------------------
(* JavaScript values *)

Undefined == [t |-> "undefined"]
NotString == [t |-> "object"]
S(chunks) == [t |-> "string", v |-> chunks]
L(items) == [t |-> "array", v |-> items]

\* !x
Falsy(x) == x.t = "undefined" \/ (x.t = "string" /\ x.v = <<>>)
Truthy(x) == ~Falsy(x)
\* typeof x === 'string'
IsString(x) == x.t = "string"
\* x || d
OrElse(x, d) == IF Truthy(x) THEN x ELSE d
\* !x || typeof x !== 'string'
MissingOrInvalid(x) == Falsy(x) \/ ~IsString(x)

\* String.prototype.startsWith on chunk sequences
startsWith(s, prefix) ==
    /\ Len(prefix) <= Len(s)
    /\ SubSeq(s, 1, Len(prefix)) = prefix

\* Array.prototype.includes
includes(arr, x) == \E i \in 1..Len(arr) : arr[i] = x

\* Array.prototype.join(' ')
RECURSIVE joinSpace(_)
joinSpace(arr) ==
    IF arr = <<>> THEN <<>>
    ELSE IF Len(arr) = 1 THEN arr[1]
    ELSE arr[1] \o <<" ">> \o joinSpace(Tail(arr))

----------------------------------------------------------------------------
(* PKCE (pkce.ts) *)

\* characters of the class [A-Za-z0-9\-._~] that the model uses
UnreservedChars == {"a", "b", "z", "A", "B", "C", "D", "E", "F", "Z", "0", "9",
                    "-", ".", "_", "~"}

RECURSIVE StrLength(_)
StrLength(runs) ==
    IF runs = <<>> THEN 0 ELSE runs[1][2] + StrLength(Tail(runs))

\* /^[A-Za-z0-9\-._~]+$/.test(s)
validChars(runs) ==
    /\ runs # <<>>
    /\ \A i \in 1..Len(runs) : runs[i][1] \in UnreservedChars

PkceMinLength == 43
PkceMaxLength == 128

\* a validateCodeChallenge without the lower bound on the length
validateCodeChallenge_NoMinLength(codeChallenge) ==
    /\ codeChallenge # <<>>
    /\ StrLength(codeChallenge) <= PkceMaxLength
    /\ validChars(codeChallenge)

validateCodeChallenge(codeChallenge) ==
    IF codeChallenge = <<>> THEN FALSE
    ELSE IF StrLength(codeChallenge) < PkceMinLength
            \/ StrLength(codeChallenge) > PkceMaxLength THEN FALSE
    ELSE validChars(codeChallenge)

\* a validateCodeVerifier that rejects the longest verifiers
validateCodeVerifier_MaxExclusive(codeVerifier) ==
    IF codeVerifier = <<>> THEN FALSE
    ELSE IF StrLength(codeVerifier) < PkceMinLength
            \/ StrLength(codeVerifier) >= PkceMaxLength THEN FALSE
    ELSE validChars(codeVerifier)

validateCodeVerifier(codeVerifier) ==
    IF codeVerifier = <<>> THEN FALSE
    ELSE IF StrLength(codeVerifier) < PkceMinLength
            \/ StrLength(codeVerifier) > PkceMaxLength THEN FALSE
    ELSE validChars(codeVerifier)

\* the verifiers of the model
V1 == << <<"a", 43>> >>
V2 == << <<"b", 128>> >>
VShort == << <<"a", 42>> >>
VLong == << <<"a", 129>> >>
VDirty == << <<"a", 43>>, <<"!", 1>> >>
Verifiers == {V1, V2, VShort, VLong, VDirty}

\* createHash('sha256').update(v).digest().toString('base64url'): 43
\* characters of the base64url alphabet, a different string for each verifier
DigestChar(v) ==
    CASE v = V1 -> "A"
      [] v = V2 -> "B"
      [] v = VShort -> "C"
      [] v = VLong -> "D"
      [] v = VDirty -> "E"
      [] OTHER -> "F"

DigestLength == 43

sha256Base64url(v) == << <<DigestChar(v), DigestLength>> >>

\* a verifyPKCE that hashes an empty verifier like any other
verifyPKCE_NoEmptyCheck(codeVerifier, codeChallenge) ==
    sha256Base64url(codeVerifier) = codeChallenge

verifyPKCE(codeVerifier, codeChallenge) ==
    IF codeVerifier = <<>> \/ codeChallenge = <<>> THEN FALSE
    ELSE sha256Base64url(codeVerifier) = codeChallenge

----------------------------------------------------------------------------
(* URLs (WHATWG URL as far as register.ts and login.ts use it) *)

\* a URL is scheme, host, separator, rest; the model's URLs
UriClaude == <<"https://", "claude.ai", "/", "callback">>
UriLocal == <<"http://", "localhost", ":", "9999/cb">>
UriLocalBadPort == <<"http://", "localhost", ":", "abc">>
\* the registered localhost URI with a longer path
UriLocalExtra == <<"http://", "localhost", ":", "9999/cb", "/extra">>
UriApp == <<"https://", "app.example", "/", "cb">>
UriPlainHttp == <<"http://", "evil.example", "/", "cb">>
UriMalformed == <<"not a url">>
UriLoopback == <<"http://", "127.0.0.1", ":", "3000/cb">>

\* new URL(uri) does not throw
urlParses(uri) ==
    /\ Len(uri) >= 2
    /\ uri[1] \in {"https://", "http://"}
    /\ (Len(uri) >= 4 /\ uri[3] = ":") => uri[4] \in {"9999/cb", "3000/cb"}

urlProtocol(uri) == IF uri[1] = "https://" THEN "https:" ELSE "http:"
urlHostname(uri) == uri[2]

----------------------------------------------------------------------------
(* Configuration (types/index.ts OAuthConfig) *)

StaticClientId == <<"static-client-id">>
StaticClientSecret == <<"static-client-secret">>
ApiKey == <<"api-key">>
ServerUrl == <<"https://", "mcp.example">>
Password == <<"password">>
bcryptHash(pw) == <<"$2b$", pw>>
\* bcrypt.compare(password, hash)
bcryptCompare(pw, hash) == hash = bcryptHash(pw)

DefaultAllowedPrefixes == << <<"https://", "claude.ai", "/">>, <<"http://", "localhost", ":">> >>
DefaultScopes == << <<"mcp:tools:*">>, <<"mcp:resources:*">>, <<"mcp:prompts:*">> >>

BaseConfig ==
    [ clientId |-> StaticClientId,
      clientSecret |-> StaticClientSecret,
      apiKey |-> ApiKey,
      serverUrl |-> ServerUrl,
      passwordHash |-> S(bcryptHash(Password)),
      allowedRedirectPrefixes |-> Undefined,
      scopes |-> Undefined ]

\* a deployment that configures its own prefix list, and one with an empty list
AppPrefixConfig ==
    [BaseConfig EXCEPT !.allowedRedirectPrefixes = L(<< <<"https://", "app.example", "/">> >>)]
NoPrefixConfig == [BaseConfig EXCEPT !.allowedRedirectPrefixes = L(<<>>)]

\* deployments that configure their own scopes, or none at all
OwnScopesConfig == [BaseConfig EXCEPT !.scopes = L(<< <<"read">>, <<"write">> >>)]
NoScopesConfig == [BaseConfig EXCEPT !.scopes = L(<<>>)]

\* a deployment with another API key
OtherKeyConfig == [BaseConfig EXCEPT !.apiKey = <<"other-key">>]

Configs == {BaseConfig}

allowedPrefixes ==
    IF Truthy(config.allowedRedirectPrefixes)
    THEN config.allowedRedirectPrefixes.v ELSE DefaultAllowedPrefixes

configScopes ==
    IF Truthy(config.scopes) THEN config.scopes.v ELSE DefaultScopes

----------------------------------------------------------------------------
(* Client registry (clients.ts) *)

Digits == <<"1", "2", "3", "4", "5">>

\* generateClientId / generateClientSecret: random, so the n-th call returns
\* a value no earlier call returned and nobody has guessed
generateClientId(n) == <<"mcp-client-", Digits[n]>>
generateClientSecret(n) == <<"secret-", Digits[n]>>

NoClient == [found |-> FALSE]

\* the row registerClient inserts and returns: a secret is generated for
\* every client, whatever its auth method
registerClient(redirectUris, tokenEndpointAuthMethod, grantTypes, responseTypes, scope) ==
    [ found |-> TRUE,
      client_id |-> generateClientId(Len(oauth_clients) + 1),
      client_secret |-> generateClientSecret(Len(oauth_clients) + 1),
      redirect_uris |-> redirectUris,
      token_endpoint_auth_method |-> tokenEndpointAuthMethod,
      grant_types |-> grantTypes,
      response_types |-> responseTypes,
      scope |-> scope ]

\* SELECT * FROM oauth_clients WHERE client_id = $1; a failed query is
\* caught and answered undefined
getClient(clientId, queryOk) ==
    IF ~queryOk THEN NoClient
    ELSE IF \E i \in 1..Len(oauth_clients) : oauth_clients[i].client_id = clientId
    THEN oauth_clients[CHOOSE i \in 1..Len(oauth_clients) :
                           oauth_clients[i].client_id = clientId]
    ELSE NoClient

\* a validateClient that looks at the id alone
validateClient_IdOnly(clientId, clientSecret, staticClientId, staticClientSecret, queryOk) ==
    clientId = staticClientId \/ getClient(clientId, queryOk) # NoClient

\* a validateClient that takes a failed query for a match
validateClient_FailOpen(clientId, clientSecret, staticClientId, staticClientSecret, queryOk) ==
    IF clientId = staticClientId /\ clientSecret = staticClientSecret THEN TRUE
    ELSE LET client == getClient(clientId, queryOk)
         IN  ~queryOk \/ (client # NoClient /\ client.client_secret = clientSecret)

validateClient(clientId, clientSecret, staticClientId, staticClientSecret, queryOk) ==
    IF clientId = staticClientId /\ clientSecret = staticClientSecret THEN TRUE
    ELSE LET client == getClient(clientId, queryOk)
         IN  client # NoClient /\ client.client_secret = clientSecret

\* an isValidClientId that accepts every id
isValidClientId_AnyId(clientId, staticClientId, queryOk) == TRUE

isValidClientId(clientId, staticClientId, queryOk) ==
    IF clientId = staticClientId THEN TRUE
    ELSE getClient(clientId, queryOk) # NoClient

----------------------------------------------------------------------------
(* Authorization code store (storage.ts) *)

CODE_EXPIRATION_MS == 600000

\* the clock advances in steps of one code lifetime
TickMs == CODE_EXPIRATION_MS

generateAuthCode(n) == <<"code-", Digits[n]>>
BogusCode == <<"code-never-issued">>

NoCode == [found |-> FALSE]

\* a storeAuthCode that leaves the scope column empty
storeAuthCode_NoScope(clientId, redirectUri, codeChallenge, codeChallengeMethod, scope) ==
    [ found |-> TRUE,
      code |-> generateAuthCode(codesGenerated + 1),
      clientId |-> clientId,
      redirectUri |-> redirectUri,
      codeChallenge |-> codeChallenge,
      codeChallengeMethod |-> codeChallengeMethod,
      scope |-> Undefined,
      createdAt |-> now,
      expiresAt |-> now + CODE_EXPIRATION_MS ]

\* the row storeAuthCode inserts
storeAuthCode(clientId, redirectUri, codeChallenge, codeChallengeMethod, scope) ==
    [ found |-> TRUE,
      code |-> generateAuthCode(codesGenerated + 1),
      clientId |-> clientId,
      redirectUri |-> redirectUri,
      codeChallenge |-> codeChallenge,
      codeChallengeMethod |-> codeChallengeMethod,
      scope |-> scope,
      createdAt |-> now,
      expiresAt |-> now + CODE_EXPIRATION_MS ]

\* SELECT * FROM authorization_codes WHERE code = $1 AND expires_at > NOW();
\* a failed query is caught and answered null
\* a getAuthCode whose WHERE clause is expires_at >= NOW()
getAuthCode_InclusiveExpiry(code, queryOk) ==
    IF ~queryOk THEN NoCode
    ELSE IF \E row \in authorization_codes : row.code = code /\ row.expiresAt >= now
    THEN CHOOSE row \in authorization_codes : row.code = code /\ row.expiresAt >= now
    ELSE NoCode

getAuthCode(code, queryOk) ==
    IF ~queryOk THEN NoCode
    ELSE IF \E row \in authorization_codes : row.code = code /\ row.expiresAt > now
    THEN CHOOSE row \in authorization_codes : row.code = code /\ row.expiresAt > now
    ELSE NoCode

\* deleteAuthCode up to its first await: the DELETE is handed to the pool
deleteAuthCode(code) == pendingDeletes \cup {code}

----------------------------------------------------------------------------
(* HTTP exchanges *)

NoExchange == [endpoint |-> "none"]

\* sendError(res, error, description): status 400 in login.ts and token.ts
sendError(error, description) ==
    [status |-> 400, kind |-> "json", error |-> error, error_description |-> description]

Sessions == {"ua1"}

\* no request was received yet on the routes that count them
NoHits == [login |-> 0, token |-> 0, authorize |-> 0]

\* a user agent that has not asked for anything yet
Blank == [step |-> "blank", page |-> NoExchange, asked |-> NoExchange]
NoPages == [s \in Sessions |-> Blank]

\* a token request that has not arrived yet, and one that was answered
Idle == [pc |-> "idle"]
Done == [pc |-> "done"]
Reqs == 1..MaxReqs

----------------------------------------------------------------------------
(* Initial state: empty tables, no session authenticated, no request *)

Init ==
    /\ config \in Configs
    /\ now = 0
    /\ oauth_clients = <<>>
    /\ authorization_codes = {}
    /\ codesGenerated = 0
    /\ pendingDeletes = {}
    /\ session = [s \in Sessions |-> [authenticated |-> FALSE]]
    /\ tok = [r \in Reqs |-> Idle]
    /\ codeEvents = {}
    /\ accessTokens = {}
    /\ hits = NoHits
    /\ userAgent = NoPages
    /\ http = NoExchange

Tick ==
    /\ now < MaxTicks * TickMs
    /\ now' = now + TickMs
    /\ http' = NoExchange
    /\ UNCHANGED <<userAgent, hits, accessTokens, config, oauth_clients, authorization_codes, codesGenerated,
                   pendingDeletes, session, tok, codeEvents>>

----------------------------------------------------------------------------
(* POST /oauth/register (register.ts) *)

\* sendError of register.ts: the status is a parameter, 400 by default
registerError(error, description, status) ==
    [status |-> status, kind |-> "json", error |-> error, error_description |-> description]

SupportedAuthMethods == {<<"client_secret_post">>, <<"client_secret_basic">>, <<"none">>}
SupportedGrantTypes == {<<"authorization_code">>, <<"refresh_token">>}
SupportedResponseTypes == {<<"code">>}

\* the checks of one redirect URI inside the loop
redirectUriProblem(uri) ==
    IF ~urlParses(uri) THEN "Malformed redirect URI"
    ELSE IF urlProtocol(uri) # "https:" /\ urlHostname(uri) \notin {"localhost", "127.0.0.1"}
    THEN "Invalid redirect URI. Must use HTTPS or localhost."
    ELSE "ok"

\* index of the first element the loop rejects (bad[i] says whether it rejects
\* element i), 0 if it rejects none
firstFailing(bad) ==
    IF \E i \in 1..Len(bad) : bad[i]
    THEN CHOOSE i \in 1..Len(bad) : bad[i] /\ \A j \in 1..(i - 1) : ~bad[j]
    ELSE 0

UriBad(uri) == redirectUriProblem(uri) # "ok"
\* a grant type check that rejects nothing
GrantTypeBad_Never(g) == FALSE
GrantTypeBad(g) == g \notin SupportedGrantTypes
ResponseTypeBad(t) == t \notin SupportedResponseTypes

\* a handleRegister that does not ask for redirect URIs
registerOutcome_UrisOptional(body, insertOk) ==
    LET redirectUris == OrElse(body.redirect_uris, L(<<>>)).v
        tokenEndpointAuthMethod ==
            OrElse(body.token_endpoint_auth_method, S(<<"client_secret_basic">>)).v
        grantTypes == OrElse(body.grant_types, L(<< <<"authorization_code">> >>)).v
        responseTypes == OrElse(body.response_types, L(<< <<"code">> >>)).v
        badUri == firstFailing([i \in 1..Len(redirectUris) |-> UriBad(redirectUris[i])])
        client == registerClient(redirectUris, tokenEndpointAuthMethod, grantTypes,
                                 responseTypes, body.scope)
    IN  IF badUri # 0
        THEN [res |-> registerError("invalid_redirect_uri",
                        redirectUriProblem(redirectUris[badUri]), 400),
              row |-> NoClient, ran |-> {}]
        ELSE IF tokenEndpointAuthMethod \notin SupportedAuthMethods
        THEN [res |-> registerError("invalid_client_metadata",
                        "Unsupported token_endpoint_auth_method", 400),
              row |-> NoClient, ran |-> {}]
        ELSE IF firstFailing([i \in 1..Len(grantTypes) |-> GrantTypeBad(grantTypes[i])]) # 0
        THEN [res |-> registerError("invalid_client_metadata", "Unsupported grant_type", 400),
              row |-> NoClient, ran |-> {}]
        ELSE IF firstFailing([i \in 1..Len(responseTypes) |-> ResponseTypeBad(responseTypes[i])]) # 0
        THEN [res |-> registerError("invalid_client_metadata", "Unsupported response_type", 400),
              row |-> NoClient, ran |-> {}]
        ELSE IF ~insertOk
        THEN [res |-> registerError("server_error", "Internal server error", 500),
              row |-> NoClient, ran |-> {"registerClient"}]
        ELSE [res |-> [ status |-> 201, kind |-> "json",
                        client_id |-> client.client_id,
                        client_secret |-> client.client_secret,
                        redirect_uris |-> client.redirect_uris,
                        token_endpoint_auth_method |-> client.token_endpoint_auth_method,
                        grant_types |-> client.grant_types,
                        response_types |-> client.response_types,
                        scope |-> client.scope ],
              row |-> client, ran |-> {"registerClient"}]

\* handleRegister as a function of the body and of whether the INSERT works:
\* the response, the row inserted (NoClient if none) and the statements run
\* a handleRegister that checks the auth method before the redirect URIs
registerOutcome_MethodFirst(body, insertOk) ==
    LET redirectUris == OrElse(body.redirect_uris, L(<<>>)).v
        tokenEndpointAuthMethod ==
            OrElse(body.token_endpoint_auth_method, S(<<"client_secret_basic">>)).v
        grantTypes == OrElse(body.grant_types, L(<< <<"authorization_code">> >>)).v
        responseTypes == OrElse(body.response_types, L(<< <<"code">> >>)).v
        badUri == firstFailing([i \in 1..Len(redirectUris) |-> UriBad(redirectUris[i])])
        client == registerClient(redirectUris, tokenEndpointAuthMethod, grantTypes,
                                 responseTypes, body.scope)
    IN  \* a request without a body throws at line 40 and is answered by the catch
        IF body = Undefined
        THEN [res |-> registerError("server_error", "Internal server error", 500),
              row |-> NoClient, ran |-> {}]
        ELSE IF tokenEndpointAuthMethod \notin SupportedAuthMethods
        THEN [res |-> registerError("invalid_client_metadata",
                        "Unsupported token_endpoint_auth_method", 400),
              row |-> NoClient, ran |-> {}]
        ELSE IF includes(grantTypes, <<"authorization_code">>) /\ Len(redirectUris) = 0
        THEN [res |-> registerError("invalid_redirect_uri",
                        "redirect_uris is required for authorization_code grant", 400),
              row |-> NoClient, ran |-> {}]
        ELSE IF badUri # 0
        THEN [res |-> registerError("invalid_redirect_uri",
                        redirectUriProblem(redirectUris[badUri]), 400),
              row |-> NoClient, ran |-> {}]
        ELSE IF firstFailing([i \in 1..Len(grantTypes) |-> GrantTypeBad(grantTypes[i])]) # 0
        THEN [res |-> registerError("invalid_client_metadata", "Unsupported grant_type", 400),
              row |-> NoClient, ran |-> {}]
        ELSE IF firstFailing([i \in 1..Len(responseTypes) |-> ResponseTypeBad(responseTypes[i])]) # 0
        THEN [res |-> registerError("invalid_client_metadata", "Unsupported response_type", 400),
              row |-> NoClient, ran |-> {}]
        ELSE IF ~insertOk
        THEN [res |-> registerError("server_error", "Internal server error", 500),
              row |-> NoClient, ran |-> {"registerClient"}]
        ELSE [res |-> [ status |-> 201, kind |-> "json",
                        client_id |-> client.client_id,
                        client_secret |-> client.client_secret,
                        redirect_uris |-> client.redirect_uris,
                        token_endpoint_auth_method |-> client.token_endpoint_auth_method,
                        grant_types |-> client.grant_types,
                        response_types |-> client.response_types,
                        scope |-> client.scope ],
              row |-> client, ran |-> {"registerClient"}]

registerOutcome(body, insertOk) ==
    LET redirectUris == OrElse(body.redirect_uris, L(<<>>)).v
        tokenEndpointAuthMethod ==
            OrElse(body.token_endpoint_auth_method, S(<<"client_secret_basic">>)).v
        grantTypes == OrElse(body.grant_types, L(<< <<"authorization_code">> >>)).v
        responseTypes == OrElse(body.response_types, L(<< <<"code">> >>)).v
        badUri == firstFailing([i \in 1..Len(redirectUris) |-> UriBad(redirectUris[i])])
        client == registerClient(redirectUris, tokenEndpointAuthMethod, grantTypes,
                                 responseTypes, body.scope)
    IN  \* a request without a body throws at line 40 and is answered by the catch
        IF body = Undefined
        THEN [res |-> registerError("server_error", "Internal server error", 500),
              row |-> NoClient, ran |-> {}]
        ELSE IF includes(grantTypes, <<"authorization_code">>) /\ Len(redirectUris) = 0
        THEN [res |-> registerError("invalid_redirect_uri",
                        "redirect_uris is required for authorization_code grant", 400),
              row |-> NoClient, ran |-> {}]
        ELSE IF badUri # 0
        THEN [res |-> registerError("invalid_redirect_uri",
                        redirectUriProblem(redirectUris[badUri]), 400),
              row |-> NoClient, ran |-> {}]
        ELSE IF tokenEndpointAuthMethod \notin SupportedAuthMethods
        THEN [res |-> registerError("invalid_client_metadata",
                        "Unsupported token_endpoint_auth_method", 400),
              row |-> NoClient, ran |-> {}]
        ELSE IF firstFailing([i \in 1..Len(grantTypes) |-> GrantTypeBad(grantTypes[i])]) # 0
        THEN [res |-> registerError("invalid_client_metadata", "Unsupported grant_type", 400),
              row |-> NoClient, ran |-> {}]
        ELSE IF firstFailing([i \in 1..Len(responseTypes) |-> ResponseTypeBad(responseTypes[i])]) # 0
        THEN [res |-> registerError("invalid_client_metadata", "Unsupported response_type", 400),
              row |-> NoClient, ran |-> {}]
        ELSE IF ~insertOk
        THEN [res |-> registerError("server_error", "Internal server error", 500),
              row |-> NoClient, ran |-> {"registerClient"}]
        ELSE [res |-> [ status |-> 201, kind |-> "json",
                        client_id |-> client.client_id,
                        client_secret |-> client.client_secret,
                        redirect_uris |-> client.redirect_uris,
                        token_endpoint_auth_method |-> client.token_endpoint_auth_method,
                        grant_types |-> client.grant_types,
                        response_types |-> client.response_types,
                        scope |-> client.scope ],
              row |-> client, ran |-> {"registerClient"}]

\* a handleRegister whose INSERT replaces the rows of the table
handleRegister_Overwrite(body, insertOk) ==
    LET out == registerOutcome(body, insertOk)
    IN  /\ oauth_clients' = IF out.row = NoClient THEN oauth_clients
                            ELSE <<out.row>>
        /\ http' = [ endpoint |-> "register", body |-> body, res |-> out.res,
                     ran |-> out.ran,
                     io |-> [insertOk |-> "registerClient" \in out.ran => insertOk],
                     audit |-> <<>>, logged |-> <<>> ]
        /\ UNCHANGED <<userAgent, hits, accessTokens, config, now, authorization_codes, codesGenerated,
                       pendingDeletes, session, tok, codeEvents>>

handleRegister(body, insertOk) ==
    LET out == registerOutcome(body, insertOk)
    IN  /\ oauth_clients' = IF out.row = NoClient THEN oauth_clients
                            ELSE Append(oauth_clients, out.row)
        /\ http' = [ endpoint |-> "register", body |-> body, res |-> out.res,
                     ran |-> out.ran,
                     io |-> [insertOk |-> "registerClient" \in out.ran => insertOk],
                     audit |-> <<>>, logged |-> <<>> ]
        /\ UNCHANGED <<userAgent, hits, accessTokens, config, now, authorization_codes, codesGenerated,
                       pendingDeletes, session, tok, codeEvents>>

----------------------------------------------------------------------------
(* POST /login (login.ts, handleLogin) *)

\* a loginOutcome that takes any password
loginOutcome_AnyPassword(body) ==
    IF MissingOrInvalid(body.password)
    THEN [status |-> 200, kind |-> "render", view |-> "login",
          error |-> "Password is required",
          originalUrl |-> OrElse(body.original_url, S(<<"/oauth/authorize">>))]
    ELSE IF MissingOrInvalid(body.original_url)
    THEN [status |-> 400, kind |-> "text", text |-> "Missing original_url"]
    ELSE IF Falsy(config.passwordHash)
    THEN [status |-> 500, kind |-> "text", text |-> "Server configuration error"]
    ELSE [status |-> 302, kind |-> "redirect", location |-> body.original_url.v]

\* a request without a body throws at line 23 and is answered by the catch
loginOutcome(body) ==
    IF body = Undefined
    THEN [status |-> 500, kind |-> "text", text |-> "Internal server error"]
    ELSE IF MissingOrInvalid(body.password)
    THEN [status |-> 200, kind |-> "render", view |-> "login",
          error |-> "Password is required",
          originalUrl |-> OrElse(body.original_url, S(<<"/oauth/authorize">>))]
    ELSE IF MissingOrInvalid(body.original_url)
    THEN [status |-> 400, kind |-> "text", text |-> "Missing original_url"]
    ELSE IF Falsy(config.passwordHash)
    THEN [status |-> 500, kind |-> "text", text |-> "Server configuration error"]
    ELSE IF ~bcryptCompare(body.password.v, config.passwordHash.v)
    THEN [status |-> 200, kind |-> "render", view |-> "login",
          error |-> "Invalid password", originalUrl |-> body.original_url]
    ELSE [status |-> 302, kind |-> "redirect", location |-> body.original_url.v]

\* a handleLogin where a failed login ends the session's authentication
handleLogin_FailureLogsOut(s, body) ==
    LET res == loginOutcome(body)
    IN  /\ session' = [session EXCEPT ![s].authenticated = (res.kind = "redirect")]
        /\ http' = [ endpoint |-> "login", session |-> s, body |-> body, res |-> res,
                     audit |-> <<>>, logged |-> <<>> ]
        /\ UNCHANGED <<accessTokens, config, now, oauth_clients, authorization_codes, codesGenerated,
                       pendingDeletes, tok, codeEvents>>

handleLogin(s, body) ==
    LET res == loginOutcome(body)
    IN  /\ session' = IF res.kind = "redirect"
                      THEN [session EXCEPT ![s].authenticated = TRUE]
                      ELSE session
        /\ http' = [ endpoint |-> "login", session |-> s, body |-> body, res |-> res,
                     audit |-> <<>>, logged |-> <<>> ]
        /\ UNCHANGED <<accessTokens, config, now, oauth_clients, authorization_codes, codesGenerated,
                       pendingDeletes, tok, codeEvents>>

----------------------------------------------------------------------------
(* GET /oauth/authorize (login.ts, handleAuthorize) *)

isValidRedirectUri(redirectUri, prefixes) ==
    \E i \in 1..Len(prefixes) : startsWith(redirectUri, prefixes[i])

\* req.originalUrl of an authorize request with query q
originalUrlOf(q) == <<"/oauth/authorize?", q>>

\* lines 209-228: the redirect_uri check, by kind of client
\* a redirect_uri check that uses the prefix whitelist for every client
redirectUriValid_PrefixForAll(client_id, redirect_uri, lookupOk) ==
    isValidRedirectUri(redirect_uri, allowedPrefixes)

redirectUriValid(client_id, redirect_uri, lookupOk) ==
    IF client_id = config.clientId
    THEN isValidRedirectUri(redirect_uri, allowedPrefixes)
    ELSE LET client == getClient(client_id, lookupOk)
         IN  IF client # NoClient THEN includes(client.redirect_uris, redirect_uri)
             ELSE FALSE

\* approveAndRedirect: the row stored and the response; a failed INSERT and
\* a redirect_uri that new URL() rejects both throw into handleAuthorize's
\* catch, the second after the row is stored
\* an approveAndRedirect that stores the code a second time when the INSERT
\* failed, and redirects
approveAndRedirect_Retry(authReq, insertOk) ==
    LET row == storeAuthCode(authReq.client_id, authReq.redirect_uri,
                             authReq.code_challenge, authReq.code_challenge_method,
                             authReq.scope)
    IN  IF ~urlParses(authReq.redirect_uri)
        THEN [res |-> sendError("server_error", "Internal server error"), row |-> row]
        ELSE [res |-> [ status |-> 302, kind |-> "redirect",
                        base |-> authReq.redirect_uri,
                        code |-> S(row.code),
                        state |-> IF Truthy(authReq.state) THEN authReq.state
                                  ELSE Undefined ],
              row |-> row]

approveAndRedirect(authReq, insertOk) ==
    LET row == storeAuthCode(authReq.client_id, authReq.redirect_uri,
                             authReq.code_challenge, authReq.code_challenge_method,
                             authReq.scope)
    IN  IF ~insertOk
        THEN [res |-> sendError("server_error", "Internal server error"), row |-> NoCode]
        ELSE IF ~urlParses(authReq.redirect_uri)
        THEN [res |-> sendError("server_error", "Internal server error"), row |-> row]
        ELSE [res |-> [ status |-> 302, kind |-> "redirect",
                        base |-> authReq.redirect_uri,
                        code |-> S(row.code),
                        state |-> IF Truthy(authReq.state) THEN authReq.state
                                  ELSE Undefined ],
              row |-> row]

\* handleAuthorize as a function of the session flag it reads, the query and
\* of which of its three queries work: the response, the row stored and the
\* queries that were run
authorizeOutcome(authenticated, q, validOk, lookupOk, insertOk) ==
    LET fail(error, description, ran) ==
            [res |-> sendError(error, description), row |-> NoCode, ran |-> ran]
        \* isValidClientId and the redirect check query only for a dynamic id
        lookups == IF q.client_id.v = config.clientId THEN {}
                   ELSE {"isValidClientId", "getClient"}
        approved == approveAndRedirect(
                        [ client_id |-> q.client_id.v,
                          redirect_uri |-> q.redirect_uri.v,
                          response_type |-> q.response_type.v,
                          code_challenge |-> q.code_challenge.v,
                          code_challenge_method |-> q.code_challenge_method.v,
                          state |-> IF IsString(q.state) THEN q.state ELSE Undefined,
                          scope |-> IF IsString(q.scope) THEN q.scope ELSE Undefined ],
                        insertOk)
    IN  IF MissingOrInvalid(q.client_id)
        THEN fail("invalid_request", "Missing or invalid client_id", {})
        ELSE IF MissingOrInvalid(q.redirect_uri)
        THEN fail("invalid_request", "Missing or invalid redirect_uri", {})
        ELSE IF Falsy(q.response_type) \/ q.response_type # S(<<"code">>)
        THEN fail("unsupported_response_type", "Only \"code\" response_type is supported", {})
        ELSE IF MissingOrInvalid(q.code_challenge)
        THEN fail("invalid_request", "Missing or invalid code_challenge", {})
        ELSE IF Falsy(q.code_challenge_method) \/ q.code_challenge_method # S(<<"S256">>)
        THEN fail("invalid_request", "Only \"S256\" code_challenge_method is supported", {})
        ELSE IF ~validateCodeChallenge(q.code_challenge.v)
        THEN fail("invalid_request", "Invalid code_challenge format", {})
        ELSE IF ~isValidClientId(q.client_id.v, config.clientId, validOk)
        THEN fail("unauthorized_client", "Invalid client_id", lookups \ {"getClient"})
        ELSE IF ~redirectUriValid(q.client_id.v, q.redirect_uri.v, lookupOk)
        THEN fail("invalid_request", "Unauthorized redirect_uri", lookups)
        ELSE IF authenticated
        THEN [res |-> approved.res, row |-> approved.row,
              ran |-> lookups \cup {"storeAuthCode"}]
        ELSE [res |-> [ status |-> 200, kind |-> "render", view |-> "login",
                        error |-> "null", originalUrl |-> S(originalUrlOf(q)) ],
              row |-> NoCode, ran |-> lookups]

\* a handleAuthorize that approves without looking at the session
handleAuthorize_SessionIgnored(s, q, validOk, lookupOk, insertOk) ==
    LET out == authorizeOutcome(TRUE, q, validOk, lookupOk, insertOk)
    IN  /\ out.row # NoCode => codesGenerated < MaxCodes
        /\ authorization_codes' = IF out.row = NoCode THEN authorization_codes
                                  ELSE authorization_codes \cup {out.row}
        /\ codesGenerated' = IF out.row = NoCode THEN codesGenerated
                             ELSE codesGenerated + 1
        /\ http' = [ endpoint |-> "authorize", session |-> s,
                     authenticated |-> session[s].authenticated,
                     query |-> q, res |-> out.res, stored |-> out.row,
                     ran |-> out.ran,
                     io |-> [ validOk |-> "isValidClientId" \in out.ran => validOk,
                              lookupOk |-> "getClient" \in out.ran => lookupOk,
                              insertOk |-> "storeAuthCode" \in out.ran => insertOk ],
                     audit |-> <<>>, logged |-> <<>> ]
        /\ UNCHANGED <<accessTokens, config, now, oauth_clients, pendingDeletes, session, tok,
                       codeEvents>>

\* handleAuthorize where the store takes up to limit codes
handleAuthorizeUpTo(limit, s, q, validOk, lookupOk, insertOk) ==
    LET out == authorizeOutcome(session[s].authenticated, q, validOk, lookupOk, insertOk)
    IN  /\ out.row # NoCode => codesGenerated < limit
        /\ authorization_codes' = IF out.row = NoCode THEN authorization_codes
                                  ELSE authorization_codes \cup {out.row}
        /\ codesGenerated' = IF out.row = NoCode THEN codesGenerated
                             ELSE codesGenerated + 1
        /\ http' = [ endpoint |-> "authorize", session |-> s,
                     authenticated |-> session[s].authenticated,
                     query |-> q, res |-> out.res, stored |-> out.row,
                     ran |-> out.ran,
                     io |-> [ validOk |-> "isValidClientId" \in out.ran => validOk,
                              lookupOk |-> "getClient" \in out.ran => lookupOk,
                              insertOk |-> "storeAuthCode" \in out.ran => insertOk ],
                     audit |-> <<>>, logged |-> <<>> ]
        /\ UNCHANGED <<accessTokens, config, now, oauth_clients, pendingDeletes, session, tok,
                       codeEvents>>

handleAuthorize(s, q, validOk, lookupOk, insertOk) ==
    handleAuthorizeUpTo(MaxCodes, s, q, validOk, lookupOk, insertOk)

----------------------------------------------------------------------------
(* Audit log (utils/audit-log.ts) *)

\* logAuthEvent: the rows the INSERT adds to auth_logs; a failed INSERT is
\* caught and adds none
logAuthEvent(event, success, clientId, errorMessage, insertOk) ==
    IF insertOk
    THEN << [event |-> event, success |-> success, client_id |-> clientId,
             error_message |-> errorMessage] >>
    ELSE <<>>

----------------------------------------------------------------------------
(* POST /oauth/token (token.ts, handleToken) *)

\* outcomes answered for a code so far
eventsOf(code) == {e \in {"token", "client_id mismatch", "redirect_uri mismatch",
                          "PKCE verification failed"} : <<code, e>> \in codeEvents}

\* outcomes already answered for the code a request names
seenAtStart(body) ==
    IF body # Undefined /\ IsString(body.code) THEN eventsOf(body.code.v) ELSE {}

\* the row of the table for a code, expired or not
rowOf(code) ==
    IF \E row \in authorization_codes : row.code = code
    THEN CHOOSE row \in authorization_codes : row.code = code
    ELSE NoCode

\* one call of getAuthCode as the request saw it: whether the query worked,
\* the row that was in the table, the result and the time of the read
NoFetch == [used |-> FALSE]
fetchOf(code, queryOk) ==
    [ used |-> TRUE, queryOk |-> queryOk, row |-> rowOf(code),
      result |-> getAuthCode(code, queryOk), at |-> now ]

\* lines 302-328: the credential check for the resolved client
\* a credential check that asks every client for a secret
credentialsOk_SecretAlways(client_id, client_secret, client, authMethod, validateOk) ==
    IF MissingOrInvalid(client_secret) THEN FALSE
    ELSE validateClient(client_id, client_secret.v, config.clientId,
                        config.clientSecret, validateOk)

\* a credential check that lets every request pass
credentialsOk_Always(client_id, client_secret, client, authMethod, validateOk) == TRUE

credentialsOk(client_id, client_secret, client, authMethod, validateOk) ==
    IF authMethod = <<"none">>
    THEN ~(client = NoClient /\ client_id # config.clientId)
    ELSE IF MissingOrInvalid(client_secret) THEN FALSE
    ELSE validateClient(client_id, client_secret.v, config.clientId,
                        config.clientSecret, validateOk)

credentialsError(authMethod, client_secret) ==
    IF authMethod = <<"none">> THEN "Invalid client_id"
    ELSE IF MissingOrInvalid(client_secret) THEN "Missing or invalid client_secret"
    ELSE "Invalid client_id or client_secret"

\* a handleToken that answers a failed fallback like a failed fetch of the code
tokenStartOutcome_FallbackInvalidGrant(body, tempOk, clientOk, validateOk) ==
    LET fail(error, description, fallback) ==
            [done |-> TRUE, res |-> sendError(error, description), fallback |-> fallback,
             client_id |-> <<>>, authMethod |-> <<>>]
        \* a failure after client_id and the auth method were resolved
        failAs(error, description, fallback, client_id, authMethod) ==
            [done |-> TRUE, res |-> sendError(error, description), fallback |-> fallback,
             client_id |-> client_id, authMethod |-> authMethod]
        needsFallback == MissingOrInvalid(body.client_id)
        tempCode == fetchOf(body.code.v, tempOk)
        fallback == IF needsFallback THEN tempCode ELSE NoFetch
        client_id == IF needsFallback THEN tempCode.result.clientId ELSE body.client_id.v
        client == getClient(client_id, clientOk)
        authMethod == IF client # NoClient THEN client.token_endpoint_auth_method
                      ELSE <<"client_secret_post">>
    IN  IF body = Undefined
        THEN fail("server_error", "Internal server error", NoFetch)
        ELSE IF Falsy(body.grant_type) \/ body.grant_type # S(<<"authorization_code">>)
        THEN fail("unsupported_grant_type",
                  "Only \"authorization_code\" grant_type is supported", NoFetch)
        ELSE IF MissingOrInvalid(body.code)
        THEN fail("invalid_request", "Missing or invalid code", NoFetch)
        ELSE IF MissingOrInvalid(body.redirect_uri)
        THEN fail("invalid_request", "Missing or invalid redirect_uri", NoFetch)
        ELSE IF MissingOrInvalid(body.code_verifier)
        THEN fail("invalid_request", "Missing or invalid code_verifier", NoFetch)
        ELSE IF needsFallback
                /\ (tempCode.result = NoCode \/ tempCode.result.clientId = <<>>)
        THEN fail("invalid_grant", "Invalid or expired authorization code", fallback)
        ELSE IF ~credentialsOk(client_id, body.client_secret, client, authMethod, validateOk)
        THEN failAs("invalid_client", credentialsError(authMethod, body.client_secret),
                    fallback, client_id, authMethod)
        ELSE IF ~validateCodeVerifier(body.code_verifier.v)
        THEN failAs("invalid_request", "Invalid code_verifier format", fallback,
                    client_id, authMethod)
        ELSE [done |-> FALSE, client_id |-> client_id, authMethod |-> authMethod,
              fallback |-> fallback]

\* lines 239-334: handleToken up to the fetch of the code.  The fallback
\* read of the code is the only read of mutable rows here; the registry is
\* append-only and its ids are unguessable, so its two reads are taken in
\* the same step.
tokenStartOutcome(body, tempOk, clientOk, validateOk) ==
    LET fail(error, description, fallback) ==
            [done |-> TRUE, res |-> sendError(error, description), fallback |-> fallback,
             client_id |-> <<>>, authMethod |-> <<>>]
        \* a failure after client_id and the auth method were resolved
        failAs(error, description, fallback, client_id, authMethod) ==
            [done |-> TRUE, res |-> sendError(error, description), fallback |-> fallback,
             client_id |-> client_id, authMethod |-> authMethod]
        needsFallback == MissingOrInvalid(body.client_id)
        tempCode == fetchOf(body.code.v, tempOk)
        fallback == IF needsFallback THEN tempCode ELSE NoFetch
        client_id == IF needsFallback THEN tempCode.result.clientId ELSE body.client_id.v
        client == getClient(client_id, clientOk)
        authMethod == IF client # NoClient THEN client.token_endpoint_auth_method
                      ELSE <<"client_secret_post">>
    IN  IF body = Undefined
        THEN fail("server_error", "Internal server error", NoFetch)
        ELSE IF Falsy(body.grant_type) \/ body.grant_type # S(<<"authorization_code">>)
        THEN fail("unsupported_grant_type",
                  "Only \"authorization_code\" grant_type is supported", NoFetch)
        ELSE IF MissingOrInvalid(body.code)
        THEN fail("invalid_request", "Missing or invalid code", NoFetch)
        ELSE IF MissingOrInvalid(body.redirect_uri)
        THEN fail("invalid_request", "Missing or invalid redirect_uri", NoFetch)
        ELSE IF MissingOrInvalid(body.code_verifier)
        THEN fail("invalid_request", "Missing or invalid code_verifier", NoFetch)
        ELSE IF needsFallback
                /\ (tempCode.result = NoCode \/ tempCode.result.clientId = <<>>)
        THEN fail("invalid_request", "Missing or invalid client_id", fallback)
        ELSE IF ~credentialsOk(client_id, body.client_secret, client, authMethod, validateOk)
        THEN failAs("invalid_client", credentialsError(authMethod, body.client_secret),
                    fallback, client_id, authMethod)
        ELSE IF ~validateCodeVerifier(body.code_verifier.v)
        THEN failAs("invalid_request", "Invalid code_verifier format", fallback,
                    client_id, authMethod)
        ELSE [done |-> FALSE, client_id |-> client_id, authMethod |-> authMethod,
              fallback |-> fallback]

\* the registry queries of lines 293 and 317 in a token request: whether
\* getClient ran and whether validateClient got as far as its own getClient,
\* and whether the query worked
tokenLookups(body, tempOk, clientOk, validateOk) ==
    LET out == tokenStartOutcome(body, tempOk, clientOk, validateOk)
        resolved == out.client_id # <<>>
        validated == /\ resolved
                     /\ out.authMethod # <<"none">>
                     /\ ~MissingOrInvalid(body.client_secret)
                     /\ ~(/\ out.client_id = config.clientId
                          /\ body.client_secret.v = config.clientSecret)
        outcome(ran, ok) == IF ~ran THEN "skipped" ELSE IF ok THEN "ok" ELSE "failed"
    IN  [ getClient |-> outcome(resolved, clientOk),
          validateClient |-> outcome(validated, validateOk) ]

\* the exchange a token request ends with: the request, the response, what
\* the handler had resolved and read, the audit rows it inserted and the
\* events it handed to logAuthEvent
tokenExchange(r, body, res, client_id, authMethod, fallback, lookups, fetch, seen, audit, logged) ==
    [ endpoint |-> "token", slot |-> r, body |-> body, res |-> res,
      client_id |-> client_id, authMethod |-> authMethod,
      fallback |-> fallback, lookups |-> lookups, fetch |-> fetch,
      seen |-> seen, before |-> seenAtStart(body), audit |-> audit,
      logged |-> logged ]

\* a handleToken that deletes the code when the client credentials are wrong
handleTokenStart_BurnsOnInvalidClient(r, body, tempOk, clientOk, validateOk) ==
    LET out == tokenStartOutcome(body, tempOk, clientOk, validateOk)
    IN  /\ tok[r] = Idle
        /\ \A earlier \in 1..(r - 1) : tok[earlier] # Idle
        /\ IF out.done
           THEN /\ tok' = [tok EXCEPT ![r] = Done]
                /\ http' = tokenExchange(r, body, out.res, out.client_id, out.authMethod,
                                         out.fallback,
                                         tokenLookups(body, tempOk, clientOk, validateOk),
                                         NoFetch, seenAtStart(body), <<>>, <<>>)
           ELSE /\ tok' = [tok EXCEPT ![r] =
                              [ pc |-> "fetch", body |-> body,
                                client_id |-> out.client_id,
                                authMethod |-> out.authMethod,
                                seen |-> seenAtStart(body),
                                fallback |-> out.fallback,
                                lookups |-> tokenLookups(body, tempOk, clientOk, validateOk),
                                fetch |-> NoFetch,
                                failure |-> "none" ]]
                /\ http' = NoExchange
        /\ pendingDeletes' = IF out.done /\ out.res.error = "invalid_client"
                             THEN deleteAuthCode(body.code.v) ELSE pendingDeletes
        /\ UNCHANGED <<accessTokens, config, now, oauth_clients, authorization_codes, codesGenerated,
                       session, codeEvents>>

handleTokenStart(r, body, tempOk, clientOk, validateOk) ==
    LET out == tokenStartOutcome(body, tempOk, clientOk, validateOk)
    IN  /\ tok[r] = Idle
        /\ \A earlier \in 1..(r - 1) : tok[earlier] # Idle
        /\ IF out.done
           THEN /\ tok' = [tok EXCEPT ![r] = Done]
                /\ http' = tokenExchange(r, body, out.res, out.client_id, out.authMethod,
                                         out.fallback,
                                         tokenLookups(body, tempOk, clientOk, validateOk),
                                         NoFetch, seenAtStart(body), <<>>, <<>>)
           ELSE /\ tok' = [tok EXCEPT ![r] =
                              [ pc |-> "fetch", body |-> body,
                                client_id |-> out.client_id,
                                authMethod |-> out.authMethod,
                                seen |-> seenAtStart(body),
                                fallback |-> out.fallback,
                                lookups |-> tokenLookups(body, tempOk, clientOk, validateOk),
                                fetch |-> NoFetch,
                                failure |-> "none" ]]
                /\ http' = NoExchange
        /\ UNCHANGED <<accessTokens, config, now, oauth_clients, authorization_codes, codesGenerated,
                       pendingDeletes, session, codeEvents>>

\* lines 336-376: the fetch, the binding checks and the start of the DELETE.
\* The two mismatch branches answer in the same turn; the PKCE branch and the
\* success branch go on to await logAuthEvent.
\* a handleToken without the comparison of redirect_uri (lines 351-356)
tokenFetchOutcome_NoRedirectCheck(body, client_id, storedCode) ==
    IF storedCode = NoCode
    THEN [delete |-> FALSE, answer |-> TRUE,
          failure |-> "Invalid or expired authorization code"]
    ELSE IF storedCode.clientId # client_id
    THEN [delete |-> TRUE, answer |-> TRUE, failure |-> "client_id mismatch"]
    ELSE IF ~verifyPKCE(body.code_verifier.v, storedCode.codeChallenge)
    THEN [delete |-> TRUE, answer |-> FALSE, failure |-> "PKCE verification failed"]
    ELSE [delete |-> TRUE, answer |-> FALSE, failure |-> "none"]

\* a handleToken that starts a DELETE for a code it did not find
tokenFetchOutcome_DeletesAbsent(body, client_id, storedCode) ==
    IF storedCode = NoCode
    THEN [delete |-> TRUE, answer |-> TRUE,
          failure |-> "Invalid or expired authorization code"]
    ELSE IF storedCode.clientId # client_id
    THEN [delete |-> TRUE, answer |-> TRUE, failure |-> "client_id mismatch"]
    ELSE IF storedCode.redirectUri # body.redirect_uri.v
    THEN [delete |-> TRUE, answer |-> TRUE, failure |-> "redirect_uri mismatch"]
    ELSE IF ~verifyPKCE(body.code_verifier.v, storedCode.codeChallenge)
    THEN [delete |-> TRUE, answer |-> FALSE, failure |-> "PKCE verification failed"]
    ELSE [delete |-> TRUE, answer |-> FALSE, failure |-> "none"]

tokenFetchOutcome(body, client_id, storedCode) ==
    IF storedCode = NoCode
    THEN [delete |-> FALSE, answer |-> TRUE,
          failure |-> "Invalid or expired authorization code"]
    ELSE IF storedCode.clientId # client_id
    THEN [delete |-> TRUE, answer |-> TRUE, failure |-> "client_id mismatch"]
    ELSE IF storedCode.redirectUri # body.redirect_uri.v
    THEN [delete |-> TRUE, answer |-> TRUE, failure |-> "redirect_uri mismatch"]
    ELSE IF ~verifyPKCE(body.code_verifier.v, storedCode.codeChallenge)
    THEN [delete |-> TRUE, answer |-> FALSE, failure |-> "PKCE verification failed"]
    ELSE [delete |-> TRUE, answer |-> FALSE, failure |-> "none"]

handleTokenFetch(r, fetchOk) ==
    /\ tok[r].pc = "fetch"
    /\ LET t == tok[r]
           code == t.body.code.v
           fetch == fetchOf(code, fetchOk)
           out == tokenFetchOutcome(t.body, t.client_id, fetch.result)
       IN  /\ pendingDeletes' = IF out.delete THEN deleteAuthCode(code)
                                ELSE pendingDeletes
           /\ IF out.answer
              THEN /\ tok' = [tok EXCEPT ![r] = Done]
                   /\ http' = tokenExchange(r, t.body,
                                  sendError("invalid_grant", out.failure),
                                  t.client_id, t.authMethod, t.fallback, t.lookups, fetch, t.seen, <<>>, <<>>)
                   /\ codeEvents' = IF out.delete
                                    THEN codeEvents \cup {<<code, out.failure>>}
                                    ELSE codeEvents
              ELSE /\ tok' = [tok EXCEPT ![r] =
                                 [t EXCEPT !.pc = "log", !.fetch = fetch,
                                           !.failure = out.failure]]
                   /\ http' = NoExchange
                   /\ codeEvents' = codeEvents
    /\ UNCHANGED <<userAgent, hits, accessTokens, config, now, oauth_clients, authorization_codes, codesGenerated,
                   session>>

\* a token response that always names the configured scopes
tokenResponse_ConfiguredScopes(storedCode) ==
    [ status |-> 200, kind |-> "json",
      access_token |-> config.apiKey,
      token_type |-> "Bearer",
      scope |-> joinSpace(configScopes) ]

\* lines 387-392: the body of the 200 response
tokenResponse(storedCode) ==
    [ status |-> 200, kind |-> "json",
      access_token |-> config.apiKey,
      token_type |-> "Bearer",
      scope |-> IF Truthy(storedCode.scope) THEN storedCode.scope.v
                ELSE joinSpace(configScopes) ]

\* a handleToken that answers server_error when the audit INSERT fails
handleTokenLog_AuditFailureFails(r, logOk) ==
    /\ tok[r].pc = "log"
    /\ LET t == tok[r]
           code == t.body.code.v
       IN  IF ~logOk
           THEN /\ http' = tokenExchange(r, t.body,
                               sendError("server_error", "Internal server error"),
                               t.client_id, t.authMethod, t.fallback, t.lookups, t.fetch, t.seen, <<>>, <<>>)
                /\ codeEvents' = codeEvents
                /\ accessTokens' = accessTokens
           ELSE IF t.failure # "none"
           THEN /\ http' = tokenExchange(r, t.body,
                               sendError("invalid_grant", t.failure),
                               t.client_id, t.authMethod, t.fallback, t.lookups, t.fetch, t.seen,
                               logAuthEvent("token_failure", FALSE, t.client_id,
                                            t.failure, logOk),
                               <<"token_failure">>)
                /\ codeEvents' = codeEvents \cup {<<code, t.failure>>}
                /\ accessTokens' = accessTokens
           ELSE /\ http' = tokenExchange(r, t.body, tokenResponse(t.fetch.result),
                               t.client_id, t.authMethod, t.fallback, t.lookups, t.fetch, t.seen,
                               logAuthEvent("token_exchange", TRUE, t.client_id,
                                            "none", logOk),
                               <<"token_exchange">>)
                /\ codeEvents' = codeEvents \cup {<<code, "token">>}
                /\ accessTokens' = accessTokens
                                     \cup {tokenResponse(t.fetch.result).access_token}
    /\ tok' = [tok EXCEPT ![r] = Done]
    /\ UNCHANGED <<userAgent, hits, config, now, oauth_clients, authorization_codes, codesGenerated,
                   pendingDeletes, session>>

\* a handleToken that ends without a response when the audit INSERT fails
handleTokenLog_SilentOnAuditFailure(r, logOk) ==
    /\ tok[r].pc = "log"
    /\ LET t == tok[r]
           code == t.body.code.v
       IN  IF ~logOk
           THEN /\ http' = NoExchange
                /\ codeEvents' = codeEvents
                /\ accessTokens' = accessTokens
           ELSE IF t.failure # "none"
           THEN /\ http' = tokenExchange(r, t.body,
                               sendError("invalid_grant", t.failure),
                               t.client_id, t.authMethod, t.fallback, t.lookups, t.fetch, t.seen,
                               logAuthEvent("token_failure", FALSE, t.client_id,
                                            t.failure, logOk),
                               <<"token_failure">>)
                /\ codeEvents' = codeEvents \cup {<<code, t.failure>>}
                /\ accessTokens' = accessTokens
           ELSE /\ http' = tokenExchange(r, t.body, tokenResponse(t.fetch.result),
                               t.client_id, t.authMethod, t.fallback, t.lookups, t.fetch, t.seen,
                               logAuthEvent("token_exchange", TRUE, t.client_id,
                                            "none", logOk),
                               <<"token_exchange">>)
                /\ codeEvents' = codeEvents \cup {<<code, "token">>}
                /\ accessTokens' = accessTokens
                                     \cup {tokenResponse(t.fetch.result).access_token}
    /\ tok' = [tok EXCEPT ![r] = Done]
    /\ UNCHANGED <<userAgent, hits, config, now, oauth_clients, authorization_codes, codesGenerated,
                   pendingDeletes, session>>

\* lines 365-394: after the DELETE was started, the audit INSERT is awaited
\* and the response sent
handleTokenLog(r, logOk) ==
    /\ tok[r].pc = "log"
    /\ LET t == tok[r]
           code == t.body.code.v
       IN  IF t.failure # "none"
           THEN /\ http' = tokenExchange(r, t.body,
                               sendError("invalid_grant", t.failure),
                               t.client_id, t.authMethod, t.fallback, t.lookups, t.fetch, t.seen,
                               logAuthEvent("token_failure", FALSE, t.client_id,
                                            t.failure, logOk),
                               <<"token_failure">>)
                /\ codeEvents' = codeEvents \cup {<<code, t.failure>>}
                /\ accessTokens' = accessTokens
           ELSE /\ http' = tokenExchange(r, t.body, tokenResponse(t.fetch.result),
                               t.client_id, t.authMethod, t.fallback, t.lookups, t.fetch, t.seen,
                               logAuthEvent("token_exchange", TRUE, t.client_id,
                                            "none", logOk),
                               <<"token_exchange">>)
                /\ codeEvents' = codeEvents \cup {<<code, "token">>}
                /\ accessTokens' = accessTokens
                                     \cup {tokenResponse(t.fetch.result).access_token}
    /\ tok' = [tok EXCEPT ![r] = Done]
    /\ UNCHANGED <<userAgent, hits, config, now, oauth_clients, authorization_codes, codesGenerated,
                   pendingDeletes, session>>

\* deleteAuthCode after its await: the DELETE reaches the table, or fails and
\* is only logged
deleteLands(code, queryOk) ==
    /\ code \in pendingDeletes
    /\ pendingDeletes' = pendingDeletes \ {code}
    /\ authorization_codes' = IF queryOk
                              THEN {row \in authorization_codes : row.code # code}
                              ELSE authorization_codes
    /\ http' = NoExchange
    /\ UNCHANGED <<userAgent, hits, accessTokens, config, now, oauth_clients, codesGenerated, session, tok, codeEvents>>

----------------------------------------------------------------------------
(* Rate limiters (middleware/session.ts); setupOAuth installs none of them *)

RateLimitWindowMs == 900000

tooManyRequests(description) ==
    [ status |-> 429, kind |-> "json", error |-> "too_many_requests",
      error_description |-> description ]

loginRateLimiter ==
    [ windowMs |-> RateLimitWindowMs, max |-> 5,
      message |-> tooManyRequests("Too many login attempts. Please try again in 15 minutes.") ]
tokenRateLimiter ==
    [ windowMs |-> RateLimitWindowMs, max |-> 10,
      message |-> tooManyRequests("Too many token requests. Please try again in 15 minutes.") ]
authorizeRateLimiter ==
    [ windowMs |-> RateLimitWindowMs, max |-> 20,
      message |-> tooManyRequests("Too many authorization requests. Please try again in 15 minutes.") ]

\* one more request was received on a route
hit(route) == [hits EXCEPT ![route] = @ + 1]

----------------------------------------------------------------------------
(* Bearer guard (index.ts, createAuthMiddleware) *)

wwwAuthenticateHeader ==
    [ realm |-> config.serverUrl,
      resource_metadata |-> config.serverUrl \o <<"/.well-known/oauth-protected-resource">>,
      scope |-> joinSpace(IF Truthy(config.scopes) THEN config.scopes.v
                          ELSE << <<"mcp:tools:*">>, <<"mcp:resources:*">> >>) ]

unauthorized(error, description) ==
    [ status |-> 401, kind |-> "json",
      headers |-> [WWW_Authenticate |-> wwwAuthenticateHeader],
      error |-> error, error_description |-> description ]

\* authHeader.slice(7) of a header that starts with 'Bearer '
bearerToken(authHeader) == Tail(authHeader.v)

\* a guard that lets every Bearer header pass
authMiddleware_AnyBearer(authHeader) ==
    IF Falsy(authHeader) \/ ~startsWith(authHeader.v, <<"Bearer ">>)
    THEN [next |-> FALSE, res |-> unauthorized("unauthorized", "Bearer token required")]
    ELSE [next |-> TRUE, res |-> [kind |-> "next"]]

\* authMiddleware: whether next() is called, and the response when it is not
authMiddleware(authHeader) ==
    IF Falsy(authHeader) \/ ~startsWith(authHeader.v, <<"Bearer ">>)
    THEN [next |-> FALSE, res |-> unauthorized("unauthorized", "Bearer token required")]
    ELSE IF bearerToken(authHeader) # config.apiKey
    THEN [next |-> FALSE,
          res |-> unauthorized("invalid_token", "Bearer token is invalid or expired")]
    ELSE [next |-> TRUE, res |-> [kind |-> "next"]]

\* a request to a route behind the guard
handleProtected(authHeader) ==
    LET out == authMiddleware(authHeader)
    IN  /\ http' = [ endpoint |-> "protected", header |-> authHeader,
                     next |-> out.next, res |-> out.res ]
        /\ UNCHANGED <<userAgent, hits, accessTokens, config, now, oauth_clients, authorization_codes,
                       codesGenerated, pendingDeletes, session, tok, codeEvents>>

----------------------------------------------------------------------------
\* the response has left the server; the next request is handled
responseSent ==
    /\ http # NoExchange
    /\ http' = NoExchange
    /\ UNCHANGED <<userAgent, hits, accessTokens, config, now, oauth_clients, authorization_codes, codesGenerated,
                   pendingDeletes, session, tok, codeEvents>>

----------------------------------------------------------------------------
(* Requests the environment sends *)

registerBody(uris, method, grants, responses, scope) ==
    [ redirect_uris |-> uris, token_endpoint_auth_method |-> method,
      grant_types |-> grants, response_types |-> responses, scope |-> scope ]

\* a public client, a confidential client, and a request without redirect URIs
RegisterBodies ==
    { registerBody(L(<<UriLocal>>), S(<<"none">>), Undefined, Undefined, Undefined),
      registerBody(L(<<UriLocal>>), S(<<"client_secret_post">>), Undefined, Undefined, Undefined),
      registerBody(Undefined, Undefined, Undefined, Undefined, Undefined) }

\* registration requests of every shape: redirect_uris omitted, empty, good,
\* not HTTPS, malformed; each auth method, an unsupported one, none given;
\* grant and response type lists omitted, empty, supported and unsupported
AnyRegisterBodies ==
    { registerBody(uris, method, grants, responses, Undefined) :
        uris \in { Undefined, L(<<>>), L(<<UriLocal>>), L(<<UriClaude, UriApp>>),
                   L(<<UriPlainHttp>>), L(<<UriLocal, UriMalformed>>),
                   L(<<UriLoopback>>) },
        method \in { Undefined, S(<<>>), S(<<"none">>), S(<<"client_secret_post">>),
                     S(<<"client_secret_basic">>), S(<<"private_key_jwt">>) },
        grants \in { Undefined, L(<<>>), L(<< <<"authorization_code">> >>),
                     L(<< <<"refresh_token">> >>),
                     L(<< <<"authorization_code">>, <<"refresh_token">> >>),
                     L(<< <<"authorization_code">>, <<"implicit">> >>) },
        responses \in { Undefined, L(<< <<"code">> >>), L(<< <<"code">>, <<"token">> >>) } }

LoginBodies ==
    { [password |-> S(Password), original_url |-> S(<<"/oauth/authorize?">>)],
      [password |-> S(<<"guess">>), original_url |-> S(<<"/oauth/authorize?">>)] }

authorizeQuery(client_id, redirect_uri, response_type, code_challenge, method, state, scope) ==
    [ client_id |-> client_id, redirect_uri |-> redirect_uri,
      response_type |-> response_type, code_challenge |-> code_challenge,
      code_challenge_method |-> method, state |-> state, scope |-> scope ]

\* well-formed requests of the static and of the first dynamic client for
\* the challenge of V1, and one with a redirect_uri nobody registered
AuthorizeQueries ==
    { authorizeQuery(S(c), S(u), S(<<"code">>), S(sha256Base64url(V1)), S(<<"S256">>),
                     Undefined, Undefined) :
        c \in {StaticClientId, generateClientId(1)}, u \in {UriLocal, UriApp} }

\* authorize requests of every shape: each client_id with each redirect_uri,
\* without state, with a state, with an empty state and with a state that is
\* not a string, and requests with any of the other parameters wrong, alone
\* or together
AuthorizeClientIds ==
    { Undefined, NotString, S(<<>>), S(StaticClientId), S(generateClientId(1)),
      S(<<"mcp-client-", "unknown">>) }
AuthorizeRedirectUris ==
    { Undefined, S(UriClaude), S(UriLocal), S(UriLocalExtra), S(UriLocalBadPort), S(UriApp) }
AnyAuthorizeQueries ==
    { authorizeQuery(c, u, S(<<"code">>), S(sha256Base64url(V1)), S(<<"S256">>),
                     st, Undefined) :
        c \in AuthorizeClientIds, u \in AuthorizeRedirectUris,
        st \in {Undefined, NotString, S(<<>>), S(<<"xyz">>)} }
    \cup
    { authorizeQuery(c, u, rt, ch, m, Undefined, S(<<"mcp:tools:*">>)) :
        c \in {Undefined, S(StaticClientId)},
        u \in {NotString, S(UriLocal)},
        rt \in {S(<<"code">>), S(<<"token">>), Undefined},
        ch \in {S(sha256Base64url(V1)), S(VShort), S(VDirty), Undefined},
        m \in {S(<<"S256">>), S(<<"plain">>), Undefined} }

\* authorize requests of the static client that differ in their scope
ScopedAuthorizeQueries ==
    { authorizeQuery(S(StaticClientId), S(UriLocal), S(<<"code">>),
                     S(sha256Base64url(V1)), S(<<"S256">>), Undefined, scope) :
        scope \in {Undefined, NotString, S(<<>>), S(<<"mcp:tools:*">>)} }

tokenBody(grant_type, code, redirect_uri, code_verifier, client_id, client_secret) ==
    [ grant_type |-> grant_type, code |-> code, redirect_uri |-> redirect_uri,
      code_verifier |-> code_verifier, client_id |-> client_id,
      client_secret |-> client_secret ]

\* codes a client can present: those issued so far, and one never issued
IssuedCodes == {generateAuthCode(n) : n \in 1..codesGenerated}

\* client_id and client_secret as the static client, the first dynamic
\* client with and without its secret, and a client that omits client_id
ClientIds == {Undefined, S(StaticClientId), S(generateClientId(1))}
ClientSecrets == {Undefined, S(StaticClientSecret), S(generateClientSecret(1))}
UsualCredentials ==
    { <<S(StaticClientId), S(StaticClientSecret)>>,
      <<S(generateClientId(1)), S(generateClientSecret(1))>>,
      <<S(generateClientId(1)), Undefined>>,
      <<Undefined, Undefined>> }

\* token requests: for each issued code, every combination of client_id and
\* client_secret with the right redirect_uri and verifier, and the usual
\* credentials with a wrong redirect_uri or a wrong verifier; for a code
\* never issued, a request with and without client_id; a request with
\* another grant type, one with a verifier that is too short, one with that
\* verifier and a wrong secret, and one without redirect_uri and verifier
TokenBodies ==
    { tokenBody(S(<<"authorization_code">>), S(c), S(UriLocal), S(V1), id, secret) :
        c \in IssuedCodes, id \in ClientIds, secret \in ClientSecrets }
    \cup
    { tokenBody(S(<<"authorization_code">>), S(c), S(uv[1]), S(uv[2]), cred[1], cred[2]) :
        c \in IssuedCodes, uv \in {<<UriClaude, V1>>, <<UriLocal, V2>>, <<UriClaude, V2>>},
        cred \in UsualCredentials }
    \cup
    { tokenBody(S(<<"authorization_code">>), S(BogusCode), S(UriLocal), S(V1),
                S(StaticClientId), S(StaticClientSecret)),
      tokenBody(S(<<"authorization_code">>), S(BogusCode), S(UriLocal), S(V1),
                Undefined, Undefined),
      tokenBody(S(<<"refresh_token">>), S(BogusCode), S(UriLocal), S(V1),
                Undefined, Undefined),
      tokenBody(S(<<"authorization_code">>), S(BogusCode), S(UriLocal), S(VShort),
                S(StaticClientId), S(StaticClientSecret)),
      tokenBody(S(<<"authorization_code">>), S(BogusCode), S(UriLocal), S(VShort),
                S(StaticClientId), S(generateClientSecret(1))),
      tokenBody(S(<<"authorization_code">>), S(BogusCode), NotString, Undefined,
                S(StaticClientId), S(StaticClientSecret)) }

\* Authorization headers: none, empty, the two API keys as Bearer tokens, a
\* lower-case scheme, another scheme, the bare key, no token, a trailing and
\* a leading blank, and every access token a response has carried
AuthorizationHeaders ==
    { Undefined, S(<<>>), S(<<"Bearer ">> \o ApiKey), S(<<"Bearer ", "other-key">>),
      S(<<"bearer ">> \o ApiKey), S(<<"Basic ">> \o ApiKey), S(ApiKey), S(<<"Bearer ">>),
      S(<<"Bearer ">> \o ApiKey \o <<" ">>), S(<<"Bearer ", " ">> \o ApiKey) }
    \cup { S(<<"Bearer ">> \o t) : t \in accessTokens }

----------------------------------------------------------------------------
(* The system *)

\* clients register until MaxClients of them have
Register == \E body \in RegisterBodies, insertOk \in BOOLEAN :
    /\ http = NoExchange
    /\ Len(oauth_clients) < MaxClients
    /\ handleRegister(body, insertOk)

Login == \E s \in Sessions, body \in LoginBodies :
    http = NoExchange /\ handleLogin(s, body) /\ UNCHANGED <<userAgent, hits>>

\* user agents ask for authorization until MaxCodes codes are issued
Authorize == \E s \in Sessions, q \in AuthorizeQueries,
                validOk \in BOOLEAN, lookupOk \in BOOLEAN, insertOk \in BOOLEAN :
    /\ http = NoExchange
    /\ codesGenerated < MaxCodes
    /\ handleAuthorize(s, q, validOk, lookupOk, insertOk)
    /\ UNCHANGED <<userAgent, hits>>

TokenStart == \E r \in Reqs, body \in TokenBodies,
                 tempOk \in BOOLEAN, clientOk \in BOOLEAN, validateOk \in BOOLEAN :
    /\ http = NoExchange
    /\ handleTokenStart(r, body, tempOk, clientOk, validateOk)
    /\ UNCHANGED <<userAgent, hits>>

TokenFetch == \E r \in Reqs, fetchOk \in BOOLEAN :
    http = NoExchange /\ handleTokenFetch(r, fetchOk)

TokenLog == \E r \in Reqs, logOk \in BOOLEAN :
    http = NoExchange /\ handleTokenLog(r, logOk)

DeleteLands == \E code \in pendingDeletes, queryOk \in BOOLEAN :
    http = NoExchange /\ deleteLands(code, queryOk)

Clock == http = NoExchange /\ Tick

Next ==
    \/ Register
    \/ Login
    \/ Authorize
    \/ TokenStart
    \/ TokenFetch
    \/ TokenLog
    \/ DeleteLands
    \/ Clock
    \/ responseSent

Spec == Init /\ [][Next]_vars

----------------------------------------------------------------------------
(* The authorization endpoint on its own: any deployment, any request *)

AuthorizeConfigs == {BaseConfig, AppPrefixConfig, NoPrefixConfig}

InitAuthorize ==
    /\ config \in AuthorizeConfigs
    /\ now = 0
    /\ oauth_clients = <<>>
    /\ authorization_codes = {}
    /\ codesGenerated = 0
    /\ pendingDeletes = {}
    /\ session = [s \in Sessions |-> [authenticated |-> FALSE]]
    /\ tok = [r \in Reqs |-> Idle]
    /\ codeEvents = {}
    /\ accessTokens = {}
    /\ hits = NoHits
    /\ userAgent = NoPages
    /\ http = NoExchange

AuthorizeAny == \E s \in Sessions, q \in AnyAuthorizeQueries,
                   validOk \in BOOLEAN, lookupOk \in BOOLEAN, insertOk \in BOOLEAN :
    /\ http = NoExchange
    /\ handleAuthorize(s, q, validOk, lookupOk, insertOk)
    /\ UNCHANGED <<userAgent, hits>>

NextAuthorize ==
    \/ Register
    \/ Login
    \/ AuthorizeAny
    \/ responseSent

SpecAuthorize == InitAuthorize /\ [][NextAuthorize]_vars

----------------------------------------------------------------------------
(* The static client's flow in deployments with different scopes *)

ScopeConfigs == {BaseConfig, OwnScopesConfig, NoScopesConfig}

InitScope ==
    /\ config \in ScopeConfigs
    /\ now = 0
    /\ oauth_clients = <<>>
    /\ authorization_codes = {}
    /\ codesGenerated = 0
    /\ pendingDeletes = {}
    /\ session = [s \in Sessions |-> [authenticated |-> FALSE]]
    /\ tok = [r \in Reqs |-> Idle]
    /\ codeEvents = {}
    /\ accessTokens = {}
    /\ hits = NoHits
    /\ userAgent = NoPages
    /\ http = NoExchange

AuthorizeScoped == \E s \in Sessions, q \in ScopedAuthorizeQueries, insertOk \in BOOLEAN :
    /\ http = NoExchange
    /\ codesGenerated < MaxCodes
    /\ handleAuthorize(s, q, TRUE, TRUE, insertOk)
    /\ UNCHANGED <<userAgent, hits>>

NextScope ==
    \/ Login
    \/ AuthorizeScoped
    \/ TokenStart
    \/ TokenFetch
    \/ TokenLog
    \/ DeleteLands
    \/ responseSent

SpecScope == InitScope /\ [][NextScope]_vars

----------------------------------------------------------------------------
(* The static client's flow and the routes behind the Bearer guard *)

BearerConfigs == {BaseConfig, OtherKeyConfig}

InitBearer ==
    /\ config \in BearerConfigs
    /\ now = 0
    /\ oauth_clients = <<>>
    /\ authorization_codes = {}
    /\ codesGenerated = 0
    /\ pendingDeletes = {}
    /\ session = [s \in Sessions |-> [authenticated |-> FALSE]]
    /\ tok = [r \in Reqs |-> Idle]
    /\ codeEvents = {}
    /\ accessTokens = {}
    /\ hits = NoHits
    /\ userAgent = NoPages
    /\ http = NoExchange

Protected == \E authHeader \in AuthorizationHeaders :
    http = NoExchange /\ handleProtected(authHeader)

NextBearer ==
    \/ Login
    \/ AuthorizeScoped
    \/ TokenStart
    \/ TokenFetch
    \/ TokenLog
    \/ DeleteLands
    \/ Clock
    \/ Protected
    \/ responseSent

SpecBearer == InitBearer /\ [][NextBearer]_vars

----------------------------------------------------------------------------
(* The routes setupOAuth installs, with the requests of one client address
   counted within one window *)

LoginHit == \E s \in Sessions, body \in LoginBodies :
    /\ http = NoExchange
    /\ hits.login < MaxHits
    /\ handleLogin(s, body)
    /\ hits' = hit("login")
    /\ UNCHANGED userAgent

AuthorizeHit == \E s \in Sessions, q \in ScopedAuthorizeQueries, insertOk \in BOOLEAN :
    /\ http = NoExchange
    /\ hits.authorize < MaxHits
    /\ codesGenerated < MaxCodes
    /\ handleAuthorize(s, q, TRUE, TRUE, insertOk)
    /\ hits' = hit("authorize")
    /\ UNCHANGED userAgent

\* the registry lookups of the token requests work here
TokenHit == \E r \in Reqs, body \in TokenBodies :
    /\ http = NoExchange
    /\ hits.token < MaxHits
    /\ handleTokenStart(r, body, TRUE, TRUE, TRUE)
    /\ hits' = hit("token")
    /\ UNCHANGED userAgent

NextRateLimit ==
    \/ LoginHit
    \/ AuthorizeHit
    \/ TokenHit
    \/ TokenFetch
    \/ TokenLog
    \/ DeleteLands
    \/ responseSent

SpecRateLimit == Init /\ [][NextRateLimit]_vars

----------------------------------------------------------------------------
(* The functions of pkce.ts on their own *)

\* a challenge with its last character changed, without it, and padded
flipLast(c) == << <<c[1][1], c[1][2] - 1>>, <<"z", 1>> >>
dropLast(c) == << <<c[1][1], c[1][2] - 1>> >>
padded(c) == c \o << <<"=", 1>> >>

\* verifiers: the empty string and the model's verifiers; challenges: the
\* empty string, the digest of each verifier and the digests changed
PkceVerifiers == {<<>>} \cup Verifiers
PkceDigests == {sha256Base64url(v) : v \in PkceVerifiers}
PkceChallenges ==
    {<<>>} \cup PkceDigests \cup {flipLast(c) : c \in PkceDigests}
           \cup {dropLast(c) : c \in PkceDigests} \cup {padded(c) : c \in PkceDigests}

\* strings for the format checks: one character repeated, for characters in
\* and out of the class and lengths around both limits, and strings of 43
\* and of 128 characters with one other character at the end or the start
FormatChars == {"a", "Z", "0", "9", "-", ".", "_", "~", "!", "+", "/", "=", " "}
FormatLengths == {1, 42, 43, 44, 128, 129}
FormatStrings ==
    {<<>>}
    \cup {<< <<c, n>> >> : c \in FormatChars, n \in FormatLengths}
    \cup {<< <<"a", 42>>, <<c, 1>> >> : c \in FormatChars \ {"a"}}
    \cup {<< <<c, 1>>, <<"a", 127>> >> : c \in FormatChars \ {"a"}}
FormatInputs == {Undefined} \cup {S(str) : str \in FormatStrings}

PkceCalls ==
    {[endpoint |-> "call", fn |-> "verifyPKCE", args |-> <<v, c>>] :
        v \in PkceVerifiers, c \in PkceChallenges}
    \cup {[endpoint |-> "call", fn |-> fn, args |-> <<x>>] :
        fn \in {"validateCodeChallenge", "validateCodeVerifier"}, x \in FormatInputs}

InitPkce ==
    /\ config = BaseConfig
    /\ now = 0
    /\ oauth_clients = <<>>
    /\ authorization_codes = {}
    /\ codesGenerated = 0
    /\ pendingDeletes = {}
    /\ session = [s \in Sessions |-> [authenticated |-> FALSE]]
    /\ tok = [r \in Reqs |-> Idle]
    /\ codeEvents = {}
    /\ accessTokens = {}
    /\ hits = NoHits
    /\ userAgent = NoPages
    /\ http \in PkceCalls

\* the functions called with a JavaScript value: undefined fails the first
\* test like the empty string
challengeFormatOk(x) == IF x = Undefined THEN FALSE ELSE validateCodeChallenge(x.v)
verifierFormatOk(x) == IF x = Undefined THEN FALSE ELSE validateCodeVerifier(x.v)

returned(result) ==
    /\ http' = [endpoint |-> http.fn, args |-> http.args, result |-> result]
    /\ UNCHANGED <<userAgent, hits, accessTokens, config, now, oauth_clients, authorization_codes,
                   codesGenerated, pendingDeletes, session, tok, codeEvents>>

VerifyPKCE ==
    /\ http.endpoint = "call" /\ http.fn = "verifyPKCE"
    /\ returned(verifyPKCE(http.args[1], http.args[2]))

ValidateCodeChallenge ==
    /\ http.endpoint = "call" /\ http.fn = "validateCodeChallenge"
    /\ returned(challengeFormatOk(http.args[1]))

ValidateCodeVerifier ==
    /\ http.endpoint = "call" /\ http.fn = "validateCodeVerifier"
    /\ returned(verifierFormatOk(http.args[1]))

NextPkce ==
    \/ VerifyPKCE
    \/ ValidateCodeChallenge
    \/ ValidateCodeVerifier

SpecPkce == InitPkce /\ [][NextPkce]_vars

----------------------------------------------------------------------------
(* The registration endpoint on its own: any request *)

RegisterAny == \E body \in AnyRegisterBodies, insertOk \in BOOLEAN :
    /\ http = NoExchange
    /\ Len(oauth_clients) < MaxClients
    /\ handleRegister(body, insertOk)

NextRegister ==
    \/ RegisterAny
    \/ responseSent

SpecRegister == Init /\ [][NextRegister]_vars

----------------------------------------------------------------------------
(* The registry over time: registrations before, between and after the
   requests of the flow *)

RegisterMore == \E body \in RegisterBodies, insertOk \in BOOLEAN :
    /\ http = NoExchange
    /\ Len(oauth_clients) < MaxRegistrations
    /\ handleRegister(body, insertOk)

NextRegistry ==
    \/ RegisterMore
    \/ Login
    \/ Authorize
    \/ TokenStart
    \/ TokenFetch
    \/ TokenLog
    \/ DeleteLands
    \/ responseSent

SpecRegistry == Init /\ [][NextRegistry]_vars

----------------------------------------------------------------------------
(* Properties of the token exchange *)

IsToken == http.endpoint = "token"
TokenSuccess == IsToken /\ http.res.status = 200
TokenFailure(description) ==
    IsToken /\ http.res.status = 400 /\ http.res.error_description = description

\* the row of the registry for a client id
registered(id) == \E i \in 1..Len(oauth_clients) : oauth_clients[i].client_id = id
registryRow(id) ==
    oauth_clients[CHOOSE i \in 1..Len(oauth_clients) : oauth_clients[i].client_id = id]

\* C1: for every code at most one token request ends with 200 and an
\* access_token, however the requests for it interleave: a request never
\* gets the token for a code for which a token was already sent.
C1_SingleUseUnderConcurrency ==
    TokenSuccess => "token" \notin http.before

\* C2: a token exchange for a code that starts after the success response
\* for that code, and gets as far as reading the code, fails with
\* invalid_grant.
C2_SecondRedemptionFails ==
    (IsToken /\ http.fetch.used /\ "token" \in http.seen)
        => http.res.status = 400 /\ http.res.error = "invalid_grant"

\* C3: a token exchange answers 200 with access_token only if grant_type was
\* authorization_code, the credential check passed, the verifier passed the
\* format check, the code was found unexpired, its clientId and redirectUri
\* equal the request's and PKCE verification succeeded; every other answer
\* is a 400 with exactly error and error_description.
credentialCheckPassed(id, secret, authMethod) ==
    IF authMethod = <<"none">>
    THEN id = config.clientId \/ registered(id)
    ELSE /\ IsString(secret)
         /\ secret.v # <<>>
         /\ \/ id = config.clientId /\ secret.v = config.clientSecret
            \/ registered(id) /\ registryRow(id).client_secret = secret.v

C3_NoTokenWithoutValidation ==
    IsToken =>
        IF http.res.status = 200
        THEN /\ DOMAIN http.res = {"status", "kind", "access_token", "token_type", "scope"}
             /\ http.body.grant_type = S(<<"authorization_code">>)
             /\ IsString(http.body.code) /\ IsString(http.body.redirect_uri)
             /\ IsString(http.body.code_verifier)
             /\ http.client_id = IF IsString(http.body.client_id) /\ Truthy(http.body.client_id)
                                 THEN http.body.client_id.v
                                 ELSE http.fallback.result.clientId
             /\ credentialCheckPassed(http.client_id, http.body.client_secret, http.authMethod)
             /\ validateCodeVerifier(http.body.code_verifier.v)
             /\ http.fetch.used
             /\ http.fetch.result # NoCode
             /\ http.fetch.result = http.fetch.row
             /\ http.fetch.result.code = http.body.code.v
             /\ http.fetch.result.expiresAt > http.fetch.at
             /\ http.fetch.result.clientId = http.client_id
             /\ http.fetch.result.redirectUri = http.body.redirect_uri.v
             /\ sha256Base64url(http.body.code_verifier.v) = http.fetch.result.codeChallenge
        ELSE /\ http.res.status = 400
             /\ DOMAIN http.res = {"status", "kind", "error", "error_description"}

\* C3 witness: a token was issued to a request that omitted client_id
C3_Witness ==
    TokenSuccess /\ http.body.client_id = Undefined /\ http.fallback.used

\* C4: for a client whose auth method is not none (a registered client with
\* client_secret_post or client_secret_basic, or the static client), no token
\* exchange succeeds unless the request carries that client's secret, also
\* when the client_id was adopted from the code record.
C4_ConfidentialClientsNeedSecret ==
    TokenSuccess =>
        LET id == http.client_id
            confidential ==
                \/ id = config.clientId
                \/ registered(id)
                   /\ registryRow(id).token_endpoint_auth_method # <<"none">>
            secret == IF id = config.clientId THEN config.clientSecret
                      ELSE registryRow(id).client_secret
        IN  confidential => http.body.client_secret = S(secret)

\* C4 witness: a confidential dynamic client redeemed a code without sending
\* client_id
C4_Witness ==
    /\ TokenSuccess
    /\ http.body.client_id = Undefined
    /\ registered(http.client_id)
    /\ registryRow(http.client_id).token_endpoint_auth_method = <<"client_secret_post">>

\* C5: a token exchange whose redirect_uri differs from the stored one fails
\* with invalid_grant, and no token exchange for that code that starts after
\* this response succeeds.
C5_RedirectMismatchBurnsCode ==
    /\ (IsToken /\ http.fetch.used /\ http.fetch.result # NoCode
            /\ http.fetch.result.redirectUri # http.body.redirect_uri.v)
          => http.res.status = 400 /\ http.res.error = "invalid_grant"
    /\ TokenSuccess => "redirect_uri mismatch" \notin http.seen

\* C6: a token exchange that fails PKCE verification has deleted the code and
\* recorded a token_failure audit event when it answers invalid_grant, and
\* no token exchange for that code that starts after this response succeeds.
C6_PkceFailureBurnsCode ==
    /\ TokenFailure("PKCE verification failed")
          => /\ http.res.error = "invalid_grant"
             /\ rowOf(http.body.code.v) = NoCode
             /\ \E i \in 1..Len(http.audit) : http.audit[i].event = "token_failure"
    /\ TokenSuccess => "PKCE verification failed" \notin http.seen

\* C7: a token exchange whose client_id differs from the code's clientId has
\* deleted the code when it answers invalid_grant, and no token exchange for
\* that code that starts after this response succeeds.
C7_ClientMismatchBurnsCode ==
    /\ TokenFailure("client_id mismatch")
          => /\ http.res.error = "invalid_grant"
             /\ rowOf(http.body.code.v) = NoCode
    /\ TokenSuccess => "client_id mismatch" \notin http.seen

\* the calls of getAuthCode a token exchange made
fetchesOf(exchange) == {f \in {exchange.fallback, exchange.fetch} : f.used}

C8_ExpiryLaw ==
    /\ \A row \in authorization_codes : row.expiresAt = row.createdAt + 600 * 1000
    /\ (http.endpoint = "authorize" /\ http.stored # NoCode) => http.stored.createdAt = now

\* C8 as stated: a code is stored with expiresAt = issue time + 600 s; a
\* fetch at or after expiresAt returns absent although the row is there, and
\* the token exchange fails with invalid_grant; a fetch strictly before
\* expiresAt of an undeleted code returns the record.
C8_Original ==
    /\ C8_ExpiryLaw
    /\ IsToken => \A f \in fetchesOf(http) :
          /\ (f.row # NoCode /\ f.at >= f.row.expiresAt)
                => f.result = NoCode /\ http.res.error = "invalid_grant"
          /\ (f.row # NoCode /\ f.at < f.row.expiresAt) => f.result = f.row

\* C8 amended: a code is stored with expiresAt = issue time + 600 s; a fetch
\* whose query works returns the row exactly when it is there and the time is
\* strictly before expiresAt, and absent otherwise; a fetch whose query fails
\* returns absent; a token exchange whose fetch of the code returns absent
\* fails with invalid_grant, and one that omitted client_id and whose fallback
\* fetch returns absent fails with invalid_request.
C8_Expiry ==
    /\ C8_ExpiryLaw
    /\ IsToken =>
          /\ \A f \in fetchesOf(http) :
                f.result = IF f.queryOk /\ f.row # NoCode /\ f.at < f.row.expiresAt
                           THEN f.row ELSE NoCode
          /\ (http.fetch.used /\ http.fetch.result = NoCode)
                => /\ http.res.status = 400
                   /\ http.res.error = "invalid_grant"
                   /\ http.res.error_description = "Invalid or expired authorization code"
          /\ (http.fallback.used /\ http.fallback.result = NoCode)
                => /\ http.res.status = 400
                   /\ http.res.error = "invalid_request"
                   /\ http.res.error_description = "Missing or invalid client_id"

\* C8 witness: a token exchange read a code exactly at its expiresAt; the row
\* was in the table, the query worked, and the answer was invalid_grant
C8_Witness ==
    /\ IsToken
    /\ http.fetch.used /\ http.fetch.queryOk
    /\ http.fetch.row # NoCode
    /\ http.fetch.at = http.fetch.row.expiresAt
    /\ http.fetch.result = NoCode
    /\ http.res.error = "invalid_grant"

----------------------------------------------------------------------------
(* Properties of the authorization endpoint *)

IsAuthorize == http.endpoint = "authorize"

\* the request checks of handleAuthorize, from the query alone
requestChecksPass(q) ==
    /\ IsString(q.client_id) /\ q.client_id.v # <<>>
    /\ IsString(q.redirect_uri) /\ q.redirect_uri.v # <<>>
    /\ q.response_type = S(<<"code">>)
    /\ IsString(q.code_challenge)
    /\ q.code_challenge_method = S(<<"S256">>)
    /\ StrLength(q.code_challenge.v) >= 43 /\ StrLength(q.code_challenge.v) <= 128
    /\ validChars(q.code_challenge.v)

clientKnown(id) == id = config.clientId \/ registered(id)

configuredPrefixes ==
    IF config.allowedRedirectPrefixes = Undefined
    THEN << <<"https://", "claude.ai", "/">>, <<"http://", "localhost", ":">> >>
    ELSE config.allowedRedirectPrefixes.v

redirectAuthorized(id, uri) ==
    IF id = config.clientId
    THEN \E i \in 1..Len(configuredPrefixes) :
            /\ Len(uri) >= Len(configuredPrefixes[i])
            /\ \A k \in 1..Len(configuredPrefixes[i]) : uri[k] = configuredPrefixes[i][k]
    ELSE /\ registered(id)
         /\ \E j \in 1..Len(registryRow(id).redirect_uris) :
               registryRow(id).redirect_uris[j] = uri

allChecksPass(q) ==
    /\ requestChecksPass(q)
    /\ clientKnown(q.client_id.v)
    /\ redirectAuthorized(q.client_id.v, q.redirect_uri.v)

\* C9: an authorize request adds a code to the store only if its session is
\* authenticated and it passed every request, client and redirect-URI check,
\* and it adds exactly the code it generated; an authorize request on an
\* unauthenticated session adds no code, and when it passes the checks it
\* renders the login view carrying the URL of the request.
C9_Step ==
    IsAuthorize' =>
        LET q == http'.query
            authenticated == session[http'.session].authenticated
        IN  /\ authorization_codes' # authorization_codes
                => /\ authenticated
                   /\ allChecksPass(q)
                   /\ http'.stored # NoCode
                   /\ http'.stored.clientId = q.client_id.v
                   /\ http'.stored.redirectUri = q.redirect_uri.v
                   /\ authorization_codes' = authorization_codes \cup {http'.stored}
            /\ ~authenticated
                => /\ authorization_codes' = authorization_codes
                   /\ http'.stored = NoCode
                   /\ (allChecksPass(q) /\ http'.io.validOk /\ http'.io.lookupOk)
                        => http'.res = [ status |-> 200, kind |-> "render",
                                         view |-> "login", error |-> "null",
                                         originalUrl |-> S(<<"/oauth/authorize?", q>>) ]
                   /\ http'.res.kind = "render"
                        => allChecksPass(q)

C9_CodesOnlyForAuthenticatedSessions == [][C9_Step]_vars

\* C9 witness: a request on an authenticated session stored a code and was
\* redirected to the client
C9_Witness ==
    /\ IsAuthorize
    /\ http.authenticated
    /\ http.stored \in authorization_codes
    /\ http.res.status = 302

\* C10: every stored code's redirectUri starts with one of the configured
\* allowed prefixes (default https://claude.ai/ and http://localhost:) when
\* its clientId is the static client id, and otherwise is a member of the
\* redirectUris registered for its client; an authorize request that passed
\* the request and client checks with any other redirect_uri is answered
\* invalid_request "Unauthorized redirect_uri" and stores no code.
C10_RedirectUriAuthorized ==
    /\ \A row \in authorization_codes : redirectAuthorized(row.clientId, row.redirectUri)
    /\ (IsAuthorize /\ requestChecksPass(http.query)
            /\ clientKnown(http.query.client_id.v) /\ http.io.validOk
            /\ ~redirectAuthorized(http.query.client_id.v, http.query.redirect_uri.v))
          => /\ http.res = [ status |-> 400, kind |-> "json",
                             error |-> "invalid_request",
                             error_description |-> "Unauthorized redirect_uri" ]
             /\ http.stored = NoCode

\* C10 witness: a dynamic client asked for a URI that extends its registered
\* one, was refused, and a code for the registered URI is in the store
C10_Witness ==
    /\ IsAuthorize
    /\ IsString(http.query.client_id)
    /\ registered(http.query.client_id.v)
    /\ http.query.redirect_uri = S(UriLocalExtra)
    /\ http.res.status = 400
    /\ http.res.error_description = "Unauthorized redirect_uri"
    /\ \E row \in authorization_codes : row.clientId = http.query.client_id.v

\* the first request check of handleAuthorize that the query fails, as the
\* error and description it is answered with; "none" if it fails none
presentString(x) == IsString(x) /\ x.v # <<>>

firstRequestFailure(q) ==
    IF ~presentString(q.client_id)
    THEN <<"invalid_request", "Missing or invalid client_id">>
    ELSE IF ~presentString(q.redirect_uri)
    THEN <<"invalid_request", "Missing or invalid redirect_uri">>
    ELSE IF q.response_type # S(<<"code">>)
    THEN <<"unsupported_response_type", "Only \"code\" response_type is supported">>
    ELSE IF ~presentString(q.code_challenge)
    THEN <<"invalid_request", "Missing or invalid code_challenge">>
    ELSE IF q.code_challenge_method # S(<<"S256">>)
    THEN <<"invalid_request", "Only \"S256\" code_challenge_method is supported">>
    ELSE IF ~(/\ StrLength(q.code_challenge.v) >= 43
              /\ StrLength(q.code_challenge.v) <= 128
              /\ validChars(q.code_challenge.v))
    THEN <<"invalid_request", "Invalid code_challenge format">>
    ELSE <<"none", "none">>

RequestFailureDescriptions ==
    { "Missing or invalid client_id", "Missing or invalid redirect_uri",
      "Only \"code\" response_type is supported", "Missing or invalid code_challenge",
      "Only \"S256\" code_challenge_method is supported", "Invalid code_challenge format" }

\* C11: an authorize request is answered with the first check it fails in the
\* order client_id, redirect_uri, response_type, code_challenge,
\* code_challenge_method, code_challenge format: HTTP 400, invalid_request
\* except unsupported_response_type for response_type; no query of the client
\* lookup, the redirect check or the code store is run and the session does
\* not matter; a request that fails none of them gets none of these answers.
C11_AuthorizeValidationOrder ==
    IsAuthorize =>
        LET failure == firstRequestFailure(http.query)
        IN  IF failure[1] # "none"
            THEN /\ http.res = [ status |-> 400, kind |-> "json", error |-> failure[1],
                                 error_description |-> failure[2] ]
                 /\ http.ran = {}
                 /\ http.stored = NoCode
            ELSE http.res.status = 400
                    => http.res.error_description \notin RequestFailureDescriptions

\* C11 witness: an authenticated session sent a request without redirect_uri,
\* with response_type token and a challenge that is too short, and was told
\* about the redirect_uri
C11_Witness ==
    /\ IsAuthorize
    /\ http.authenticated
    /\ http.query.redirect_uri = NotString
    /\ http.query.response_type = S(<<"token">>)
    /\ http.query.code_challenge = S(VShort)
    /\ http.res.error_description = "Missing or invalid redirect_uri"

\* C12: an authorize request that passes the request checks and whose
\* client_id is neither the static client id nor in the registry is answered
\* unauthorized_client, whatever its redirect_uri and whether or not the
\* session is authenticated; the redirect check's lookup is not run and no
\* code is stored.  No other request is answered unauthorized_client, unless
\* the lookup of its client failed.
C12_UnknownClientsGetNoCode ==
    (IsAuthorize /\ firstRequestFailure(http.query)[1] = "none") =>
        /\ ~clientKnown(http.query.client_id.v)
              => /\ http.res = [ status |-> 400, kind |-> "json",
                                 error |-> "unauthorized_client",
                                 error_description |-> "Invalid client_id" ]
                 /\ "getClient" \notin http.ran
                 /\ "storeAuthCode" \notin http.ran
                 /\ http.stored = NoCode
        /\ (http.res.status = 400 /\ http.res.error = "unauthorized_client")
              => ~clientKnown(http.query.client_id.v) \/ ~http.io.validOk

\* C12 witness: an authenticated session asked for a code for an unknown
\* client with a redirect_uri no prefix allows, and was answered
\* unauthorized_client
C12_Witness ==
    /\ IsAuthorize
    /\ http.authenticated
    /\ http.query.client_id = S(<<"mcp-client-", "unknown">>)
    /\ http.query.redirect_uri = S(UriApp)
    /\ http.res.error = "unauthorized_client"

----------------------------------------------------------------------------
(* Order of the checks of the token exchange *)

\* the first request check of handleToken that the body fails
tokenRequestFailure(b) ==
    IF b.grant_type # S(<<"authorization_code">>)
    THEN <<"unsupported_grant_type", "Only \"authorization_code\" grant_type is supported">>
    ELSE IF ~presentString(b.code)
    THEN <<"invalid_request", "Missing or invalid code">>
    ELSE IF ~presentString(b.redirect_uri)
    THEN <<"invalid_request", "Missing or invalid redirect_uri">>
    ELSE IF ~presentString(b.code_verifier)
    THEN <<"invalid_request", "Missing or invalid code_verifier">>
    ELSE <<"none", "none">>

errorResponse(error, description) ==
    [status |-> 400, kind |-> "json", error |-> error, error_description |-> description]

\* the auth method the registry gives a client id
trueAuthMethod(id) ==
    IF registered(id) THEN registryRow(id).token_endpoint_auth_method
    ELSE <<"client_secret_post">>

verifierWellFormed(v) ==
    StrLength(v) >= 43 /\ StrLength(v) <= 128 /\ validChars(v)

\* C13: a token exchange is answered by the first step that fails, in the
\* order request validation, client_id resolution, client credentials,
\* verifier format, code fetch, client_id binding, redirect_uri binding,
\* PKCE, and with the token only after the code's deletion was started; the
\* code is not fetched before the credentials and the verifier format have
\* passed, and a request with bad client credentials gets invalid_client
\* whatever its code and verifier are.
C13_FirstFailingStep ==
    IsToken =>
        LET b == http.body
            reqFail == tokenRequestFailure(b)
            needsFallback == ~presentString(b.client_id)
            resolved == IF needsFallback THEN http.fallback.result.clientId
                        ELSE b.client_id.v
            stored == http.fetch.result
        IN
        IF reqFail[1] # "none"
        THEN /\ http.res = errorResponse(reqFail[1], reqFail[2])
             /\ ~http.fallback.used /\ ~http.fetch.used
        ELSE IF needsFallback /\ (~http.fallback.used \/ http.fallback.result = NoCode)
        THEN /\ http.fallback.used
             /\ http.res = errorResponse("invalid_request", "Missing or invalid client_id")
             /\ ~http.fetch.used
        ELSE
          /\ http.fallback.used <=> needsFallback
          /\ ~credentialCheckPassed(resolved, b.client_secret, trueAuthMethod(resolved))
                => http.res.status = 400 /\ http.res.error = "invalid_client"
          /\ IF http.res.status = 400 /\ http.res.error = "invalid_client"
             THEN ~http.fetch.used
             ELSE
               /\ credentialCheckPassed(resolved, b.client_secret, trueAuthMethod(resolved))
               /\ IF ~verifierWellFormed(b.code_verifier.v)
                  THEN /\ http.res = errorResponse("invalid_request",
                                                   "Invalid code_verifier format")
                       /\ ~http.fetch.used
                  ELSE
                    /\ http.fetch.used
                    /\ http.client_id = resolved
                    /\ IF stored = NoCode
                       THEN http.res = errorResponse("invalid_grant",
                                           "Invalid or expired authorization code")
                       ELSE IF stored.clientId # resolved
                       THEN http.res = errorResponse("invalid_grant", "client_id mismatch")
                       ELSE IF stored.redirectUri # b.redirect_uri.v
                       THEN http.res = errorResponse("invalid_grant", "redirect_uri mismatch")
                       ELSE IF sha256Base64url(b.code_verifier.v) # stored.codeChallenge
                       THEN http.res = errorResponse("invalid_grant",
                                                     "PKCE verification failed")
                       ELSE http.res.status = 200

\* the order of consuming and issuing: a request that passed the PKCE check
\* has handed the DELETE of its code to the pool before it goes on, and the
\* token is sent only by a request that went on from there
C13_ConsumeBeforeIssue ==
    \A r \in Reqs :
        /\ (tok[r].pc = "fetch" /\ tok'[r].pc = "log")
              => tok[r].body.code.v \in pendingDeletes'
        /\ (http = NoExchange /\ http'.endpoint = "token" /\ http'.slot = r
                /\ http'.res.status = 200)
              => tok[r].pc = "log"

----------------------------------------------------------------------------
(* The client_id fallback *)

\* C14: a valid token request without a string client_id reads the code
\* first.  When an unexpired code is found, the request goes on as the
\* code's client: it is checked with that client's credentials under that
\* client's auth method (or under client_secret_post when the registry
\* lookup fails), and the later checks use that client id.  When none is
\* found, the answer is invalid_request "Missing or invalid client_id", the
\* code is not fetched again and the store is left as it was.
C14_FallbackState ==
    (IsToken /\ tokenRequestFailure(http.body)[1] = "none"
        /\ ~presentString(http.body.client_id)) =>
        LET temp == http.fallback
            adopted == temp.result.clientId
        IN  /\ temp.used
            /\ IF temp.result = NoCode
               THEN /\ http.res = errorResponse("invalid_request",
                                                "Missing or invalid client_id")
                    /\ ~http.fetch.used
               ELSE /\ temp.result = temp.row
                    /\ temp.result.code = http.body.code.v
                    /\ temp.at < temp.result.expiresAt
                    /\ http.res.status = 400
                          => http.res.error_description # "Missing or invalid client_id"
                    /\ ~credentialCheckPassed(adopted, http.body.client_secret,
                                              trueAuthMethod(adopted))
                          => http.res.status = 400 /\ http.res.error = "invalid_client"
                    /\ http.fetch.used
                          => /\ http.client_id = adopted
                             /\ http.authMethod \in
                                   {trueAuthMethod(adopted), <<"client_secret_post">>}
                             /\ credentialCheckPassed(adopted, http.body.client_secret,
                                                      http.authMethod)

C14_FallbackStep ==
    (http = NoExchange /\ http'.endpoint = "token" /\ http'.fallback.used
        /\ http'.fallback.result = NoCode)
      => UNCHANGED <<authorization_codes, pendingDeletes, oauth_clients, codeEvents>>

C14_ClientIdFallback == [](C14_FallbackState) /\ [][C14_FallbackStep]_vars

\* C14 witness: a request without client_id for a code that had expired and
\* was still in the table was answered invalid_request
C14_Witness ==
    /\ IsToken
    /\ http.fallback.used
    /\ http.fallback.row # NoCode
    /\ http.fallback.at >= http.fallback.row.expiresAt
    /\ http.fallback.result = NoCode
    /\ http.res.error = "invalid_request"

----------------------------------------------------------------------------
(* The run of a public client *)

publicClient(id) == registered(id) /\ registryRow(id).token_endpoint_auth_method = <<"none">>

\* the authorize half: a registered public client, one of its redirect URIs,
\* a well-formed S256 request, an authenticated session, every query working
C15_AuthorizeHalf ==
    (IsAuthorize /\ http.authenticated
        /\ firstRequestFailure(http.query)[1] = "none"
        /\ publicClient(http.query.client_id.v)
        /\ redirectAuthorized(http.query.client_id.v, http.query.redirect_uri.v)
        /\ http.io.validOk /\ http.io.lookupOk /\ http.io.insertOk)
      => /\ http.res.status = 302
         /\ http.res.base = http.query.redirect_uri.v
         /\ http.stored \in authorization_codes
         /\ http.res.code = S(http.stored.code)
         /\ http.stored.clientId = http.query.client_id.v
         /\ http.stored.redirectUri = http.query.redirect_uri.v
         /\ http.stored.codeChallenge = http.query.code_challenge.v

\* the token half: the public client presents client_id and no client_secret;
\* the registry lookup worked (the handler resolved auth method none)
C15_TokenHalf ==
    (IsToken /\ tokenRequestFailure(http.body)[1] = "none"
        /\ presentString(http.body.client_id)
        /\ publicClient(http.body.client_id.v)
        /\ http.body.client_secret = Undefined
        /\ verifierWellFormed(http.body.code_verifier.v)
        /\ http.authMethod = <<"none">>)
      => /\ http.fetch.used
         /\ (/\ http.fetch.queryOk
             /\ http.fetch.row # NoCode
             /\ http.fetch.at < http.fetch.row.expiresAt
             /\ http.fetch.row.clientId = http.body.client_id.v
             /\ http.fetch.row.redirectUri = http.body.redirect_uri.v
             /\ http.fetch.row.codeChallenge = sha256Base64url(http.body.code_verifier.v))
               => /\ http.res.status = 200
                  /\ http.res.access_token = config.apiKey
                  /\ http.res.token_type = "Bearer"

\* the code of the redirect was never issued before
C15_FreshCode ==
    (http = NoExchange /\ http'.endpoint = "authorize" /\ http'.stored # NoCode)
      => /\ http'.stored.code \notin IssuedCodes
         /\ \A row \in authorization_codes : row.code # http'.stored.code

\* C15: after a dynamic client registered with auth method none and a
\* redirect URI, an authorize request for that client and URI with an S256
\* challenge on an authenticated session redirects to the URI with a code
\* that was never issued before and is now stored, and a token exchange for
\* a stored unexpired code of that client with the same redirect_uri, the
\* matching verifier and no client_secret is answered 200 with access_token
\* the configured apiKey and token_type Bearer, when no query fails.
C15_PublicClientRun ==
    [](C15_AuthorizeHalf /\ C15_TokenHalf) /\ [][C15_FreshCode]_vars

\* C15 witness: a public client got the token without sending a secret
C15_Witness ==
    /\ TokenSuccess
    /\ presentString(http.body.client_id)
    /\ publicClient(http.body.client_id.v)
    /\ http.body.client_secret = Undefined
    /\ http.res.access_token = config.apiKey

----------------------------------------------------------------------------
(* The token response *)

\* the configured scopes, each one word, with a space between neighbours
scopesOfConfig ==
    IF config.scopes = Undefined
    THEN << <<"mcp:tools:*">>, <<"mcp:resources:*">>, <<"mcp:prompts:*">> >>
    ELSE config.scopes.v

spaceSeparated(words) ==
    IF words = <<>> THEN <<>>
    ELSE [i \in 1..(2 * Len(words) - 1) |->
            IF i % 2 = 1 THEN words[(i + 1) \div 2][1] ELSE " "]

\* C16: every successful token exchange returns access_token equal to the
\* configured apiKey, token_type "Bearer", and as scope the scope stored with
\* the code when that is a non-empty string, and otherwise the configured
\* (or default) scopes joined by a space.
C16_StaticAccessCredential ==
    TokenSuccess =>
        LET stored == http.fetch.result
        IN  /\ http.res.access_token = config.apiKey
            /\ http.res.token_type = "Bearer"
            /\ http.res.scope = IF presentString(stored.scope) THEN stored.scope.v
                                ELSE spaceSeparated(scopesOfConfig)

\* C16 witness: a deployment with its own scopes sent the token for a code
\* that was stored with a scope
C16_Witness ==
    /\ TokenSuccess
    /\ config.scopes # Undefined
    /\ http.fetch.result.scope = S(<<"mcp:tools:*">>)
    /\ http.res.scope = <<"mcp:tools:*">>

----------------------------------------------------------------------------
(* The redirect of a successful authorization *)

\* C17: a successful authorization redirects to the request's redirect_uri
\* with code set to the code just stored; whenever the request supplied a
\* state parameter the redirect carries exactly that value as state, and when
\* it supplied none the redirect carries no state.
C17_StatePassThrough ==
    (IsAuthorize /\ http.res.status = 302) =>
        /\ http.res.base = http.query.redirect_uri.v
        /\ http.stored \in authorization_codes
        /\ http.res.code = S(http.stored.code)
        /\ http.query.state # Undefined => http.res.state = http.query.state
        /\ http.query.state = Undefined => http.res.state = Undefined

----------------------------------------------------------------------------
(* Properties of the registration endpoint *)

IsRegister == http.endpoint = "register"

\* the grant types a registration asks for: the list it supplies, or
\* authorization_code when it supplies none
effectiveGrantTypes(body) ==
    IF body.grant_types = Undefined THEN << <<"authorization_code">> >>
    ELSE body.grant_types.v

asksForCodeGrant(body) ==
    \E i \in 1..Len(effectiveGrantTypes(body)) :
        effectiveGrantTypes(body)[i] = <<"authorization_code">>

noRedirectUris(body) ==
    body.redirect_uris = Undefined \/ body.redirect_uris = L(<<>>)

\* C18: a registration whose effective grant types include authorization_code
\* and whose redirect_uris is empty or omitted is answered 400
\* invalid_redirect_uri, whatever else it asks for, and adds no client to the
\* registry.
C18_State ==
    (IsRegister /\ asksForCodeGrant(http.body) /\ noRedirectUris(http.body))
      => http.res = [ status |-> 400, kind |-> "json",
                      error |-> "invalid_redirect_uri",
                      error_description |->
                          "redirect_uris is required for authorization_code grant" ]

C18_Step ==
    (http = NoExchange /\ http'.endpoint = "register"
        /\ asksForCodeGrant(http'.body) /\ noRedirectUris(http'.body))
      => oauth_clients' = oauth_clients

C18_RedirectUrisRequired == [](C18_State) /\ [][C18_Step]_vars

\* C18 witness: a registration without redirect_uris and grant_types, with an
\* auth method that is not supported, was told about the redirect URIs
C18_Witness ==
    /\ IsRegister
    /\ http.body.redirect_uris = Undefined
    /\ http.body.grant_types = Undefined
    /\ http.body.token_endpoint_auth_method = S(<<"private_key_jwt">>)
    /\ http.res.error = "invalid_redirect_uri"

\* C19: every client in the registry has an auth method among
\* client_secret_post, client_secret_basic and none, grant types among
\* authorization_code and refresh_token, response types among code, and at
\* least one redirect URI whenever its grant types contain authorization_code.
C19_RegistryWellFormed ==
    \A i \in 1..Len(oauth_clients) :
        LET client == oauth_clients[i]
        IN  /\ client.token_endpoint_auth_method \in
                  {<<"client_secret_post">>, <<"client_secret_basic">>, <<"none">>}
            /\ \A g \in 1..Len(client.grant_types) :
                  client.grant_types[g] \in {<<"authorization_code">>, <<"refresh_token">>}
            /\ \A t \in 1..Len(client.response_types) :
                  client.response_types[t] = <<"code">>
            /\ (\E g \in 1..Len(client.grant_types) :
                    client.grant_types[g] = <<"authorization_code">>)
                  => Len(client.redirect_uris) > 0

\* C19 witness: the registry holds a client for the code grant and the
\* refresh grant with two redirect URIs and the default auth method
C19_Witness ==
    \E i \in 1..Len(oauth_clients) :
        /\ oauth_clients[i].grant_types = << <<"authorization_code">>, <<"refresh_token">> >>
        /\ Len(oauth_clients[i].redirect_uris) = 2
        /\ oauth_clients[i].token_endpoint_auth_method = <<"client_secret_basic">>

\* a record carries a client secret
hasSecret(record) ==
    "client_secret" \in DOMAIN record /\ Len(record.client_secret) > 0

\* C20: a client registered with auth method none has no client secret,
\* neither in its registry record nor in the registration response, and every
\* client with another auth method has one in both.
C20_SecretUnlessPublic ==
    /\ \A i \in 1..Len(oauth_clients) :
          hasSecret(oauth_clients[i])
             <=> oauth_clients[i].token_endpoint_auth_method # <<"none">>
    /\ (IsRegister /\ http.res.status = 201)
          => (hasSecret(http.res) <=> http.res.token_endpoint_auth_method # <<"none">>)

----------------------------------------------------------------------------
(* Properties of the registry over time *)

\* C21: once a registration has succeeded, the client's record (id, secret,
\* redirect URIs, auth method, grant and response types, scope) is never
\* changed or removed by a later register, authorize, login or token
\* request, and a lookup of its id that reaches the table keeps resolving to
\* the same record.
C21_Step ==
    \A i \in 1..Len(oauth_clients) :
        /\ i <= Len(oauth_clients')
        /\ oauth_clients'[i] = oauth_clients[i]
        /\ getClient(oauth_clients[i].client_id, TRUE)' = oauth_clients[i]

C21_ClientsImmutable == [][C21_Step]_vars

\* C21 witness: with two clients in the registry, the first of them has
\* redeemed a code
C21_Witness ==
    /\ Len(oauth_clients) = 2
    /\ TokenSuccess
    /\ http.client_id = oauth_clients[1].client_id

----------------------------------------------------------------------------
(* Storage failures *)

ServerErrorFields == {"status", "kind", "error", "error_description"}

\* C22: when the INSERT of a registration fails the response is a
\* server_error JSON error without client credentials, and when the INSERT of
\* a code fails the authorize response is a server_error JSON error and no
\* redirect with a code; neither INSERT is tried again, so neither table has
\* a new row.
C22_State ==
    /\ (IsRegister /\ "registerClient" \in http.ran /\ ~http.io.insertOk)
          => /\ http.res.kind = "json"
             /\ http.res.error = "server_error"
             /\ DOMAIN http.res = ServerErrorFields
    /\ (IsAuthorize /\ "storeAuthCode" \in http.ran /\ ~http.io.insertOk)
          => /\ http.res.kind = "json"
             /\ http.res.error = "server_error"
             /\ DOMAIN http.res = ServerErrorFields
             /\ http.stored = NoCode

C22_Step ==
    /\ (http'.endpoint = "register" /\ "registerClient" \in http'.ran
            /\ ~http'.io.insertOk)
          => oauth_clients' = oauth_clients
    /\ (http'.endpoint = "authorize" /\ "storeAuthCode" \in http'.ran
            /\ ~http'.io.insertOk)
          => authorization_codes' = authorization_codes

C22_StorageFailureIsServerError == [](C22_State) /\ [][C22_Step]_vars

\* C22 witness: with a client in the registry whose INSERT worked, an
\* approved authorize request of an authenticated session failed to store
\* its code
C22_Witness ==
    /\ Len(oauth_clients) = 1
    /\ IsAuthorize /\ http.authenticated
    /\ "storeAuthCode" \in http.ran /\ ~http.io.insertOk
    /\ http.res.error = "server_error"

----------------------------------------------------------------------------
(* Failures off the critical path *)

\* the answer to a token request that read the code, from the request, the
\* client it was resolved to and the row it read
answerAfterFetch(b, client_id, stored) ==
    IF stored = NoCode
    THEN errorResponse("invalid_grant", "Invalid or expired authorization code")
    ELSE IF stored.clientId # client_id
    THEN errorResponse("invalid_grant", "client_id mismatch")
    ELSE IF stored.redirectUri # b.redirect_uri.v
    THEN errorResponse("invalid_grant", "redirect_uri mismatch")
    ELSE IF sha256Base64url(b.code_verifier.v) # stored.codeChallenge
    THEN errorResponse("invalid_grant", "PKCE verification failed")
    ELSE [ status |-> 200, kind |-> "json", access_token |-> config.apiKey,
           token_type |-> "Bearer",
           scope |-> IF stored.scope.t = "string" /\ stored.scope.v # <<>>
                     THEN stored.scope.v ELSE spaceSeparated(scopesOfConfig) ]

\* C23: the status and body of a token response are the same whether the
\* audit INSERT and the DELETE of the code work or fail: the answer of a
\* request that read the code is given by the request and the row read,
\* whatever became of the audit row and of the DELETE.
C23_State ==
    (IsToken /\ http.fetch.used)
       => http.res = answerAfterFetch(http.body, http.client_id, http.fetch.result)

C23_Step ==
    \A r \in Reqs :
        (tok[r].pc = "log" /\ tok'[r] = Done)
          => http'.res = answerAfterFetch(tok[r].body, tok[r].client_id, tok[r].fetch.result)

C23_NonCriticalFailuresInvisible == [](C23_State) /\ [][C23_Step]_vars

\* C23 witness: the token was sent although the audit INSERT failed and the
\* DELETE of the code failed: no audit row, the code is in the table and no
\* DELETE is on its way
C23_Witness ==
    /\ TokenSuccess
    /\ http.audit = <<>>
    /\ http.body.code.v \notin pendingDeletes
    /\ \E row \in authorization_codes : row.code = http.body.code.v

----------------------------------------------------------------------------
(* Properties of the Bearer guard *)

IsProtected == http.endpoint = "protected"

\* C24: the guard calls next() if and only if the Authorization header is
\* exactly "Bearer " followed by the configured apiKey; every other request
\* is answered 401 with a WWW-Authenticate header and the protected handler
\* is not run.  So the access_token of a successful token exchange is
\* accepted at every later time, whether or not its code was deleted or has
\* expired.
C24_BearerGuard ==
    IsProtected =>
        /\ http.next <=> http.header = S(<<"Bearer ">> \o config.apiKey)
        /\ ~http.next => /\ http.res.status = 401
                         /\ "WWW_Authenticate" \in DOMAIN http.res.headers
        /\ \A t \in accessTokens : http.header = S(<<"Bearer ">> \o t) => http.next

\* C24 witness: the token of an exchange was accepted after the code had
\* expired and was deleted
C24_Witness ==
    /\ IsProtected /\ http.next
    /\ \E t \in accessTokens : http.header = S(<<"Bearer ">> \o t)
    /\ codesGenerated = 1 /\ authorization_codes = {}
    /\ now >= CODE_EXPIRATION_MS

----------------------------------------------------------------------------
(* Rate limits and the audit log *)

IsLogin == http.endpoint = "login"

answeredTooManyRequests ==
    "error" \in DOMAIN http.res /\ http.res.error = "too_many_requests"

\* C25: with the routes of setupOAuth alone, within one window and for one
\* client address, at most 5 POST /login requests, at most 10 POST
\* /oauth/token requests and at most 20 GET /oauth/authorize requests reach
\* their handlers; the requests after those are answered too_many_requests.
C25_RateLimitsApplied ==
    /\ (IsLogin /\ hits.login > loginRateLimiter.max) => answeredTooManyRequests
    /\ (IsToken /\ hits.token > tokenRateLimiter.max) => answeredTooManyRequests
    /\ (IsAuthorize /\ hits.authorize > authorizeRateLimiter.max) => answeredTooManyRequests

\* the event kinds of auth_logs that belong to an exchange
auditEventsFor(exchange) ==
    CASE exchange.endpoint = "login" ->
            IF exchange.res.kind = "redirect" THEN {"login_success"} ELSE {"login_failure"}
      [] exchange.endpoint = "authorize" -> {"authorize_request"}
      [] exchange.endpoint = "register" -> {"client_registration"}
      [] exchange.endpoint = "token" ->
            IF exchange.res.status = 200 THEN {"token_exchange"} ELSE {"token_failure"}
      [] OTHER -> {}

\* C26: every login attempt, every authorization request, every client
\* registration and every token exchange outcome is handed to the audit log
\* as an event of its kind: login_success or login_failure,
\* authorize_request, client_registration, token_exchange or token_failure.
C26_AllEventsAudited ==
    http.endpoint \in {"login", "authorize", "register", "token"}
       => \E i \in 1..Len(http.logged) : http.logged[i] \in auditEventsFor(http)

----------------------------------------------------------------------------
(* Properties of the PKCE functions *)

\* C27: verifyPKCE(v, c) is true exactly when v and c are not empty and c
\* is the base64url digest of v; so it is true for every pair generated as
\* c = base64url(sha256(v)) and false once the verifier or the challenge is
\* changed (the digest is injective on the verifiers of the model).
C27_PkceProof ==
    http.endpoint = "verifyPKCE" =>
        LET v == http.args[1]
            c == http.args[2]
        IN  /\ http.result <=> (v # <<>> /\ c # <<>> /\ c = sha256Base64url(v))
            /\ http.result =>
                  /\ \A w \in PkceVerifiers \ {v} : sha256Base64url(w) # c
                  /\ \A d \in PkceChallenges \ {c} : sha256Base64url(v) # d

\* C27 witness: the digest of a verifier was accepted for that verifier
C27_Witness ==
    /\ http.endpoint = "verifyPKCE"
    /\ http.args = <<V2, sha256Base64url(V2)>>
    /\ http.result

\* the characters of [A-Za-z0-9-._~] among those the strings are made of
Rfc7636Chars == {"a", "b", "z", "A", "B", "C", "D", "E", "F", "Z", "0", "9",
                 "-", ".", "_", "~"}

RECURSIVE lengthOf(_)
lengthOf(str) == IF str = <<>> THEN 0 ELSE str[1][2] + lengthOf(Tail(str))

wellFormedPkceString(x) ==
    /\ x # Undefined
    /\ lengthOf(x.v) >= 43 /\ lengthOf(x.v) <= 128
    /\ \A i \in 1..Len(x.v) : x.v[i][1] \in Rfc7636Chars

\* C28: validateCodeChallenge and validateCodeVerifier return the same
\* result on every input: true exactly for the strings of 43 to 128
\* characters that are all in [A-Za-z0-9-._~]; undefined, the empty string
\* and lengths 42 and 129 are rejected, lengths 43 and 128 accepted.
C28_PkceFormat ==
    http.endpoint \in {"validateCodeChallenge", "validateCodeVerifier"} =>
        LET x == http.args[1]
        IN  /\ http.result <=> wellFormedPkceString(x)
            /\ challengeFormatOk(x) <=> verifierFormatOk(x)

\* C28 witness: a verifier of 128 characters was accepted
C28_Witness ==
    /\ http.endpoint = "validateCodeVerifier"
    /\ http.args = << S(<< <<"~", 128>> >>) >>
    /\ http.result

----------------------------------------------------------------------------
(* Token exchanges that leave the code alone *)

InvalidOrExpired ==
    errorResponse("invalid_grant", "Invalid or expired authorization code")

\* C29: a token exchange that passed the request, client and verifier
\* checks and found no unexpired code is answered invalid_grant "Invalid or
\* expired authorization code", starts no DELETE and logs no audit event;
\* the response is the same for a code that was never issued, for one that
\* has expired and for one that was consumed.
C29_State ==
    (IsToken /\ http.fetch.used /\ http.fetch.result = NoCode)
      => /\ http.res = InvalidOrExpired
         /\ http.logged = <<>> /\ http.audit = <<>>

C29_Step ==
    \A r \in Reqs :
        (tok[r].pc = "fetch" /\ http'.endpoint = "token" /\ http'.slot = r
            /\ http'.fetch.result = NoCode)
          => UNCHANGED <<pendingDeletes, authorization_codes, codeEvents, accessTokens>>

C30_EarlyFailure ==
    http'.endpoint = "token" /\ ~http'.fetch.used

C30_Step ==
    (http = NoExchange /\ C30_EarlyFailure)
      => /\ UNCHANGED <<authorization_codes, pendingDeletes>>
         /\ \A code \in IssuedCodes : getAuthCode(code, TRUE)' = getAuthCode(code, TRUE)
         /\ http'.res.status = 400
         /\ http'.res.error \in {"server_error", "unsupported_grant_type",
                                  "invalid_request", "invalid_client"}

C30_EarlyFailuresKeepTheCode == [][C30_Step]_vars

\* C30 witness: a request for a stored, unexpired code failed with
\* invalid_client, and the code is in the table with no DELETE under way
C30_Witness ==
    /\ IsToken /\ ~http.fetch.used
    /\ http.res.error = "invalid_client"
    /\ IsString(http.body.code)
    /\ getAuthCode(http.body.code.v, TRUE) # NoCode
    /\ pendingDeletes = {}

----------------------------------------------------------------------------
(* Codes and the responses that carry them *)

\* C31: when the authorize handler answers with an error (a 400 JSON error,
\* server_error from building the redirect URL included), the request has
\* stored no authorization code; every code stored was sent to the user
\* agent in a redirect.
C31_NoOrphanCodes ==
    IsAuthorize =>
        /\ http.res.status = 400 => http.stored = NoCode
        /\ http.stored # NoCode =>
              /\ http.res.status = 302
              /\ http.res.code = S(http.stored.code)

\* C32: when the token handler sends invalid_grant for a client_id,
\* redirect_uri or PKCE mismatch, or sends the access token, the row of the
\* code is already gone from the store: the DELETE has taken effect before
\* the response, not merely been started.
C32_DeletedBeforeResponse ==
    (IsToken /\ http.fetch.used /\ http.fetch.result # NoCode)
       => \A row \in authorization_codes : row.code # http.body.code.v

\* what every row of the store satisfies, and what the row stored by an
\* authorize request has of that request, apart from the scope
C33_Binding ==
    /\ \A row \in authorization_codes :
          /\ row.codeChallengeMethod = <<"S256">>
          /\ verifierWellFormed(row.codeChallenge)
    /\ (IsAuthorize /\ http.stored # NoCode) =>
          /\ http.stored \in authorization_codes
          /\ http.stored.clientId = http.query.client_id.v
          /\ http.stored.redirectUri = http.query.redirect_uri.v
          /\ http.stored.codeChallenge = http.query.code_challenge.v

\* no step changes a row that stays in the store
C33_RowsFixed ==
    \A row \in authorization_codes : \A after \in authorization_codes' :
        after.code = row.code => after = row

C33_ScopeAsSent ==
    (IsAuthorize /\ http.stored # NoCode) => http.stored.scope = http.query.scope

C33_ScopeIfString ==
    (IsAuthorize /\ http.stored # NoCode) =>
        http.stored.scope = IF http.query.scope.t = "string" THEN http.query.scope
                            ELSE Undefined

\* C33 as stated: every authorization code in the store carries exactly the
\* client_id, redirect_uri, code_challenge and scope of the authorize
\* request that created it, has codeChallengeMethod S256 and a
\* code_challenge that passes the format check, and these fields never
\* change between issuance and deletion.
C33_Original == [](C33_Binding /\ C33_ScopeAsSent) /\ [][C33_RowsFixed]_vars

\* C33 amended: the same, with the scope of the request stored when it is a
\* string and no scope stored when the request has none or one that is not
\* a string.
C33_StoredCodeBinding == [](C33_Binding /\ C33_ScopeIfString) /\ [][C33_RowsFixed]_vars

\* C33 witness: a token request read a code that carries the scope of the
\* authorize request that created it
C33_Witness ==
    /\ IsToken /\ http.fetch.used
    /\ http.fetch.result # NoCode
    /\ http.fetch.result.scope = S(<<"mcp:tools:*">>)
    /\ http.fetch.result \in authorization_codes

----------------------------------------------------------------------------
(* User agents that go through the login: they ask for authorization, post
   the login form they are shown and follow the redirect of the login *)

MaxSessionCodes == 2

\* a deployment without passwordHash
NoHashConfig == [BaseConfig EXCEPT !.passwordHash = Undefined]

SessionConfigs == {BaseConfig, NoHashConfig}

InitSession ==
    /\ config \in SessionConfigs
    /\ now = 0
    /\ oauth_clients = <<>>
    /\ authorization_codes = {}
    /\ codesGenerated = 0
    /\ pendingDeletes = {}
    /\ session = [s \in Sessions |-> [authenticated |-> FALSE]]
    /\ tok = [r \in Reqs |-> Idle]
    /\ codeEvents = {}
    /\ accessTokens = {}
    /\ hits = NoHits
    /\ userAgent = NoPages
    /\ http = NoExchange

\* authorize requests of the static client, one of them with a redirect_uri
\* whose port is not a number, of the first dynamic client, and one with a
\* redirect_uri nobody registered
SessionQueries ==
    AuthorizeQueries \cup
    { authorizeQuery(S(StaticClientId), S(UriLocalBadPort), S(<<"code">>),
                     S(sha256Base64url(V1)), S(<<"S256">>), Undefined, Undefined) }

\* login forms of every shape
AnyLoginBodies ==
    { [password |-> pw, original_url |-> url] :
        pw \in {Undefined, NotString, S(<<>>), S(Password), S(<<"guess">>)},
        url \in {Undefined, NotString, S(<<>>), S(<<"/oauth/authorize?">>)} }

\* what the user agent shows after a response, within the navigation that
\* began with the authorize request asked
shows(step, res, asked) == [step |-> step, page |-> res, asked |-> asked]

\* the user agent opens an authorization URL; the registry lookups work
OpenAuthorize == \E s \in Sessions, q \in SessionQueries, insertOk \in BOOLEAN :
    /\ http = NoExchange
    /\ handleAuthorizeUpTo(MaxSessionCodes, s, q, TRUE, TRUE, insertOk)
    /\ userAgent' = [userAgent EXCEPT ![s] =
            shows(IF http'.res.kind = "render" THEN "challenged" ELSE "answered",
                  http'.res, q)]
    /\ UNCHANGED hits

\* the user submits the login form the user agent shows, with some password
SubmitLogin == \E s \in Sessions, pw \in {Undefined, S(Password), S(<<"guess">>)} :
    /\ http = NoExchange
    /\ userAgent[s].step = "challenged"
    /\ handleLogin(s, [password |-> pw, original_url |-> userAgent[s].page.originalUrl])
    /\ userAgent' = [userAgent EXCEPT ![s] =
            shows(IF http'.res.kind = "redirect" THEN "loggedIn"
                  ELSE IF http'.res.kind = "render" THEN "challenged" ELSE "answered",
                  http'.res, userAgent[s].asked)]
    /\ UNCHANGED hits

\* the user agent follows the redirect of the login to the authorization URL
FollowRedirect == \E s \in Sessions,
                     validOk \in BOOLEAN, lookupOk \in BOOLEAN, insertOk \in BOOLEAN :
    /\ http = NoExchange
    /\ userAgent[s].step = "loggedIn"
    /\ Len(userAgent[s].page.location) = 2
    /\ handleAuthorizeUpTo(MaxSessionCodes, s, userAgent[s].page.location[2],
                           validOk, lookupOk, insertOk)
    /\ userAgent' = [userAgent EXCEPT ![s] =
            shows("replayed", http'.res, userAgent[s].asked)]
    /\ UNCHANGED hits

\* a login form posted by a script that holds the session cookie
PostLogin == \E s \in Sessions, body \in AnyLoginBodies :
    /\ http = NoExchange
    /\ handleLogin(s, body)
    /\ UNCHANGED <<userAgent, hits>>

\* one token request, with the registry lookups working
SessionTokenStart == \E body \in TokenBodies :
    /\ http = NoExchange
    /\ handleTokenStart(1, body, TRUE, TRUE, TRUE)
    /\ UNCHANGED <<userAgent, hits>>

NextSession ==
    \/ Register
    \/ OpenAuthorize
    \/ SubmitLogin
    \/ FollowRedirect
    \/ PostLogin
    \/ SessionTokenStart
    \/ TokenFetch
    \/ TokenLog
    \/ DeleteLands
    \/ responseSent

SpecSession == InitSession /\ [][NextSession]_vars

----------------------------------------------------------------------------
(* Sessions *)

\* a login form with a password that matches the configured hash and an
\* original_url that is a non-empty string
passwordLogin(body) ==
    /\ body.password.t = "string"
    /\ config.passwordHash = S(bcryptHash(body.password.v))
    /\ body.original_url.t = "string"
    /\ body.original_url.v # <<>>

\* C34: a session's authenticated flag becomes true only in a POST /login
\* whose password is a string matching the configured bcrypt hash and whose
\* original_url is a non-empty string; a login with missing or wrong
\* password, missing original_url or missing passwordHash leaves the flag
\* unchanged and sends no redirect.
C34_OnlyByPassword ==
    [][ /\ \A s \in Sessions :
              (~session[s].authenticated /\ session'[s].authenticated) =>
                  /\ http'.endpoint = "login"
                  /\ http'.session = s
                  /\ passwordLogin(http'.body)
        /\ (http'.endpoint = "login" /\ ~passwordLogin(http'.body)) =>
              /\ session' = session
              /\ http'.res.kind # "redirect" ]_vars

\* C34 witness: a login with the password authenticated the session
C34_Witness ==
    /\ IsLogin
    /\ http.body.password = S(Password)
    /\ http.res.kind = "redirect"
    /\ session[http.session].authenticated

\* C35: if an unauthenticated, otherwise valid authorize request renders the
\* login challenge with originalUrl equal to the request URL, then a
\* successful login posting that originalUrl redirects to exactly that URL,
\* and replaying it on the now-authenticated session issues a code and
\* redirects to the client (no store failure occurring).
C35_LoginReplay ==
    \A s \in Sessions :
        LET ua == userAgent[s]
        IN  /\ ua.step = "challenged" =>
                  ua.page.originalUrl = S(originalUrlOf(ua.asked))
            /\ ua.step = "loggedIn" =>
                  /\ ua.page.location = originalUrlOf(ua.asked)
                  /\ session[s].authenticated
            /\ (ua.step = "replayed" /\ IsAuthorize /\ http.session = s
                    /\ http.io.validOk /\ http.io.lookupOk /\ http.io.insertOk) =>
                  /\ http.query = ua.asked
                  /\ http.authenticated
                  /\ http.stored # NoCode
                  /\ http.stored \in authorization_codes
                  /\ http.res.status = 302
                  /\ http.res.kind = "redirect"
                  /\ http.res.base = ua.asked.redirect_uri.v
                  /\ http.res.code = S(http.stored.code)

\* an authorize request on an authenticated session that passes every check,
\* with its store operations working
C36_ValidOnAuthenticated ==
    /\ IsAuthorize
    /\ http.authenticated
    /\ allChecksPass(http.query)
    /\ http.io.validOk /\ http.io.lookupOk /\ http.io.insertOk

\* no step ends a session's authentication, and a code stored by a step is
\* none of the codes generated before
C36_Step ==
    /\ \A s \in Sessions : session[s].authenticated => session'[s].authenticated
    /\ (http'.endpoint = "authorize" /\ http'.stored # NoCode) =>
          /\ http'.stored.code \notin IssuedCodes
          /\ \A row \in authorization_codes : row.code # http'.stored.code

\* C36: no authorize, token, register or login request ever resets a
\* session's authenticated flag from true to false, so every later valid
\* authorize request on that session is auto-approved and issues a new,
\* distinct code without a login prompt.
C36_StaysAuthenticated ==
    /\ [](C36_ValidOnAuthenticated =>
            /\ http.res.kind # "render"
            /\ http.stored # NoCode
            /\ http.stored \in authorization_codes
            /\ \A row \in authorization_codes :
                  row.code = http.stored.code => row = http.stored)
    /\ [][C36_Step]_vars

\* C36 witness: a session that was authenticated before is given a second
\* code, without a login in between being needed
C36_Witness ==
    /\ C36_ValidOnAuthenticated
    /\ codesGenerated = 2
    /\ http.stored # NoCode
    /\ http.stored.code = generateAuthCode(2)
    /\ http.res.status = 302

----------------------------------------------------------------------------
(* Token requests whose reads of the store fail *)

\* a read of the code failed in the request: the fetch that resolves a
\* missing client_id or the fetch of the code itself
fetchFailed(request) ==
    \/ request.fallback.used /\ ~request.fallback.queryOk
    \/ request.fetch.used /\ ~request.fetch.queryOk

\* a lookup of the client failed in the request: getClient of the handler or
\* the one inside validateClient
lookupFailed(request) ==
    \/ request.lookups.getClient = "failed"
    \/ request.lookups.validateClient = "failed"

\* the request of slot r after the step that fetched its code
afterFetch(r) == IF tok'[r].pc = "log" THEN tok'[r] ELSE http'

\* the secret a token request presents is the one of the client it names
secretMatches ==
    /\ IsString(http.body.client_secret)
    /\ \/ /\ http.client_id = config.clientId
          /\ http.body.client_secret.v = config.clientSecret
       \/ /\ registered(http.client_id)
          /\ registryRow(http.client_id).client_secret = http.body.client_secret.v

C37_OAuthError(errors) ==
    http.res.status = 400 /\ http.res.error \in errors

C37_OriginalStep ==
    \A r \in Reqs :
        (tok[r].pc = "fetch" /\ tok'[r] # tok[r]
            /\ (fetchFailed(afterFetch(r)) \/ lookupFailed(afterFetch(r))))
          => UNCHANGED <<pendingDeletes, authorization_codes>>

\* C37 as stated: if a client lookup or a code fetch fails with a storage
\* error during a token exchange, the request ends with an OAuth error
\* (invalid_request, invalid_client or invalid_grant) and never with an
\* access token, and it deletes no code.
C37_Original ==
    /\ []((IsToken /\ (fetchFailed(http) \/ lookupFailed(http))) =>
            C37_OAuthError({"invalid_request", "invalid_client", "invalid_grant"}))
    /\ [][C37_OriginalStep]_vars

C37_FetchStep ==
    \A r \in Reqs :
        (tok[r].pc = "fetch" /\ tok'[r] # tok[r] /\ fetchFailed(afterFetch(r)))
          => UNCHANGED <<pendingDeletes, authorization_codes>>

\* C37 amended: a token exchange in which a fetch of the code fails ends with
\* invalid_request or invalid_grant, never with an access token, and deletes
\* no code; one in which the lookup inside validateClient fails ends with
\* invalid_client; one in which getClient fails goes on as the request of a
\* client_secret_post client that is not registered, and gets an access
\* token only with the secret of the client it names.
C37_FailedReads ==
    /\ []((IsToken /\ fetchFailed(http)) =>
            C37_OAuthError({"invalid_request", "invalid_grant"}))
    /\ []((IsToken /\ http.lookups.validateClient = "failed") =>
            C37_OAuthError({"invalid_client"}))
    /\ []((IsToken /\ http.lookups.getClient = "failed") =>
            /\ http.authMethod = <<"client_secret_post">>
            /\ http.res.status = 200 => secretMatches)
    /\ [][C37_FetchStep]_vars

\* C37 witness: the fetch of a stored, unexpired code failed after a failed
\* getClient; the request ended with invalid_grant, the code is in the table
\* and no DELETE is under way
C37_Witness ==
    /\ IsToken /\ http.fetch.used
    /\ ~http.fetch.queryOk
    /\ http.fetch.row # NoCode
    /\ http.lookups.getClient = "failed"
    /\ http.res.error = "invalid_grant"
    /\ http.fetch.row \in authorization_codes
    /\ pendingDeletes = {}

----------------------------------------------------------------------------
(* Runs of the four handlers, with requests that carry no body and store
   operations that fail; a query that was started settles, and a response
   that was written is sent *)

RunRegister == \E body \in RegisterBodies \cup {Undefined}, insertOk \in BOOLEAN :
    /\ http = NoExchange
    /\ Len(oauth_clients) < MaxClients
    /\ handleRegister(body, insertOk)

RunLogin == \E s \in Sessions, body \in LoginBodies \cup {Undefined} :
    http = NoExchange /\ handleLogin(s, body) /\ UNCHANGED <<userAgent, hits>>

RunTokenStart == \E body \in TokenBodies \cup {Undefined},
                    tempOk \in BOOLEAN, clientOk \in BOOLEAN, validateOk \in BOOLEAN :
    /\ http = NoExchange
    /\ handleTokenStart(1, body, tempOk, clientOk, validateOk)
    /\ UNCHANGED <<userAgent, hits>>

NextRun ==
    \/ RunRegister
    \/ RunLogin
    \/ Authorize
    \/ RunTokenStart
    \/ TokenFetch
    \/ TokenLog
    \/ DeleteLands
    \/ responseSent

\* the continuation of an await runs once its query has settled, whatever
\* other requests arrive meanwhile: the steps after an await are strongly
\* fair, since the exchanges of other requests interrupt their enabling
SpecRun ==
    /\ Init /\ [][NextRun]_vars
    /\ SF_vars(TokenFetch) /\ SF_vars(TokenLog) /\ WF_vars(responseSent)

\* what a handler sends: a redirect, a rendered view, JSON or text
C38_OneResponse ==
    http # NoExchange =>
        /\ http.endpoint \in {"authorize", "token", "register", "login"}
        /\ http.res.kind \in {"redirect", "render", "json", "text"}
        /\ http.res.status \in {200, 201, 302, 400, 500}

\* a response belongs to the run that ends with it: the run of a token
\* request ends exactly when its response is sent, and a run that has ended
\* sends nothing more and does nothing more
C38_Step ==
    /\ http' # NoExchange => http = NoExchange
    /\ http'.endpoint = "token" =>
          tok[http'.slot] # Done /\ tok'[http'.slot] = Done
    /\ \A r \in Reqs :
          /\ (tok[r] # Done /\ tok'[r] = Done) =>
                http'.endpoint = "token" /\ http'.slot = r
          /\ tok[r] = Done => tok'[r] = Done

\* every token request that is waiting for a query is answered
C38_Terminates ==
    \A r \in Reqs : (tok[r].pc \in {"fetch", "log"}) ~> (tok[r] = Done)

\* C38: every run of the authorize, token, register and login handlers
\* terminates having sent exactly one response (a redirect, a rendered
\* login view, a JSON success or a JSON/text error), on every path including
\* those where a store operation throws.
C38_ExactlyOneResponse ==
    /\ []C38_OneResponse
    /\ [][C38_Step]_vars
    /\ C38_Terminates

\* C38 witness: a token request was answered with the token although the
\* audit INSERT failed, and its run has ended
C38_Witness ==
    /\ TokenSuccess
    /\ http.logged = <<"token_exchange">>
    /\ http.audit = <<>>
    /\ tok[http.slot] = Done

----------------------------------------------------------------------------
(* The checks of a registration, in their order *)

\* the values a registration asks for, with the defaults for what it omits
askedRedirectUris(body) ==
    IF body.redirect_uris = Undefined THEN <<>> ELSE body.redirect_uris.v
askedAuthMethod(body) ==
    IF body.token_endpoint_auth_method \in {Undefined, S(<<>>)}
    THEN <<"client_secret_basic">>
    ELSE body.token_endpoint_auth_method.v
askedResponseTypes(body) ==
    IF body.response_types = Undefined THEN << <<"code">> >> ELSE body.response_types.v

\* a redirect URI that is well-formed and HTTPS or on localhost/127.0.0.1
acceptableRedirectUri(uri) ==
    /\ urlParses(uri)
    /\ uri[1] = "https://" \/ uri[2] \in {"localhost", "127.0.0.1"}

\* the first check a registration fails, as the error and the descriptions
\* it can be answered with; "none" if it fails none
firstRegisterFailure(body) ==
    LET uris == askedRedirectUris(body)
        grants == effectiveGrantTypes(body)
        responses == askedResponseTypes(body)
    IN  IF asksForCodeGrant(body) /\ uris = <<>>
        THEN <<"invalid_redirect_uri",
               {"redirect_uris is required for authorization_code grant"}>>
        ELSE IF \E i \in 1..Len(uris) : ~acceptableRedirectUri(uris[i])
        THEN <<"invalid_redirect_uri",
               {"Malformed redirect URI",
                "Invalid redirect URI. Must use HTTPS or localhost."}>>
        ELSE IF askedAuthMethod(body) \notin
                  {<<"client_secret_post">>, <<"client_secret_basic">>, <<"none">>}
        THEN <<"invalid_client_metadata", {"Unsupported token_endpoint_auth_method"}>>
        ELSE IF \E i \in 1..Len(grants) :
                    grants[i] \notin {<<"authorization_code">>, <<"refresh_token">>}
        THEN <<"invalid_client_metadata", {"Unsupported grant_type"}>>
        ELSE IF \E i \in 1..Len(responses) : responses[i] # <<"code">>
        THEN <<"invalid_client_metadata", {"Unsupported response_type"}>>
        ELSE <<"none", {}>>

C39_State ==
    IsRegister =>
        LET failure == firstRegisterFailure(http.body)
        IN  IF failure[1] # "none"
            THEN /\ http.res.status = 400
                 /\ http.res.error = failure[1]
                 /\ http.res.error_description \in failure[2]
                 /\ http.ran = {}
            ELSE /\ http.res.status \in {201, 500}
                 /\ http.res.status = 500 => ~http.io.insertOk
                 /\ http.res.status = 201 =>
                       /\ Len(oauth_clients) > 0
                       /\ oauth_clients[Len(oauth_clients)].client_id = http.res.client_id

C39_Step ==
    http'.endpoint = "register" =>
        IF http'.res.status = 201
        THEN /\ Len(oauth_clients') = Len(oauth_clients) + 1
             /\ \A i \in 1..Len(oauth_clients) : oauth_clients'[i] = oauth_clients[i]
             /\ \A i \in 1..Len(oauth_clients) :
                   oauth_clients[i].client_id # http'.res.client_id
        ELSE oauth_clients' = oauth_clients

\* C39: the register handler checks, in order, empty redirect_uris for the
\* code grant, each redirect URI being well-formed and HTTPS or
\* localhost/127.0.0.1 (invalid_redirect_uri), the auth method, each grant
\* type, each response type (invalid_client_metadata); the first failure is
\* answered with 400 and nothing is persisted, and only a request passing
\* all checks persists exactly one new client and answers 201 with its
\* client_id.
C39_RegistrationOrder == [](C39_State) /\ [][C39_Step]_vars

\* C39 witness: a registration with a plain-HTTP redirect URI, an auth
\* method, a grant type and a response type that are not supported was told
\* about the redirect URI, and the registry is empty
C39_Witness ==
    /\ IsRegister
    /\ http.body.redirect_uris = L(<<UriPlainHttp>>)
    /\ http.body.token_endpoint_auth_method = S(<<"private_key_jwt">>)
    /\ http.body.grant_types = L(<< <<"authorization_code">>, <<"implicit">> >>)
    /\ http.body.response_types = L(<< <<"code">>, <<"token">> >>)
    /\ http.res.error = "invalid_redirect_uri"
    /\ oauth_clients = <<>>

====
